---------------------------- MODULE Spec2Model ----------------------------
(***************************************************************************)
(* A model of the share-link codecs of sandbox-links:                      *)
(*   - src/src/ato/link.rs   Attempt This Online links (sandbox A),        *)
(*   - src/src/ato/state.rs  typed resolution of a decoded sandbox-A link, *)
(*   - src/src/ato.rs        the earlier sandbox-A decoder (State),        *)
(*   - src/src/tio/link.rs   Try It Online v1 links (sandbox B).           *)
(*                                                                         *)
(* Text is a sequence of bytes (0..255): a Rust String is its UTF-8 bytes, *)
(* a URL is its ASCII bytes.  The library calls the code makes (base64,    *)
(* DEFLATE, MessagePack, the URL parser, the JSON parser) are modelled by  *)
(* what they compute on the byte level, each on the subset of its format   *)
(* that the bounded inputs below can reach; the subset is stated at each   *)
(* definition.                                                             *)
(***************************************************************************)
EXTENDS Integers, Sequences, FiniteSets, TLC

VARIABLES
    sandbox,    \* which codec the caller is using: "ato", "tio", "args", "typed"
    pc,         \* the caller's position
    st,         \* the state the caller started from (NoState for a link)
    url,        \* the link in hand
    dec,        \* the result of decoding url
    url2,       \* the link obtained by encoding dec's state again
    dec2,       \* the result of decoding url2
    args,       \* the options or program-arguments string being resolved
    parsed,     \* the result of parse_arg_list on args
    registry,   \* the language registry: what it holds, and the lookups made
    typed,      \* the result of LinkState::parse on st
    once,       \* the lazily initialised LANGUAGES static and its Once
    threads     \* the threads that call get_language, and where each stands

vars == <<sandbox, pc, st, url, dec, url2, dec2, args, parsed, registry, typed,
          once, threads>>

(***************************************************************************)
(* Bytes and text                                                          *)
(***************************************************************************)

\* The printable ASCII characters in code order: 32 (space) to 95, and 97 to
\* 126 (the grave accent, 96, cannot be written in a string and is not used).
AsciiLow == " !\"#$%&'()*+,-./0123456789:;<=>?@ABCDEFGHIJKLMNOPQRSTUVWXYZ[\\]^_"
AsciiHigh == "abcdefghijklmnopqrstuvwxyz{|}~"

\* The byte of a one-character string.
Ord(c) ==
    IF \E i \in 1..Len(AsciiLow) : SubSeq(AsciiLow, i, i) = c
    THEN 31 + (CHOOSE i \in 1..Len(AsciiLow) : SubSeq(AsciiLow, i, i) = c)
    ELSE 96 + (CHOOSE i \in 1..Len(AsciiHigh) : SubSeq(AsciiHigh, i, i) = c)

\* The bytes of an ASCII string literal.
B(s) == [i \in 1..Len(s) |-> Ord(SubSeq(s, i, i))]

\* The bytes the code names.
MINUS == Ord("-")
UNDERSCORE == Ord("_")
PLUS == Ord("+")
SLASH == Ord("/")
EQUALS == Ord("=")
HASH == Ord("#")
PERCENT == Ord("%")
COLON == Ord(":")
LESS == Ord("<")
GREATER == Ord(">")
QUESTION == Ord("?")
AT == Ord("@")
LBRACKET == Ord("[")
BACKSLASH == Ord("\\")
RBRACKET == Ord("]")
CARET == Ord("^")
BAR == Ord("|")
SPACE == Ord(" ")
AMPERSAND == Ord("&")

\* The strings the code names.
KEY_0 == B("0")
KEY_1 == B("1")
KEY_L == B("L")
KEY_l == B("l")
HTTP_PREFIX == B("http://")
HTTPS_PREFIX == B("https://")
HTTPS == B("https")
HTTP == B("http")
ROOT_PATH == B("/")
QUERY_MARK == B("?")
PREFIX_V0 == B("0=")
PREFIX_V1 == B("1=")

IsUpper(b) == b >= 65 /\ b <= 90
IsLower(b) == b >= 97 /\ b <= 122
IsDigit(b) == b >= 48 /\ b <= 57

\* Position of the first element of s that is in the set S, or 0.
FirstIn(s, S) ==
    IF \E i \in 1..Len(s) : s[i] \in S
    THEN CHOOSE i \in 1..Len(s) : s[i] \in S /\ \A j \in 1..(i - 1) : s[j] \notin S
    ELSE 0

\* Position of the first b in s, or 0.
IndexOf(s, b) == FirstIn(s, {b})

Contains(s, b) == \E i \in 1..Len(s) : s[i] = b

Drop(s, n) == SubSeq(s, n + 1, Len(s))
Take(s, n) == SubSeq(s, 1, n)

StartsWith(s, p) == Len(s) >= Len(p) /\ Take(s, Len(p)) = p
EndsWith(s, p) == Len(s) >= Len(p) /\ Drop(s, Len(s) - Len(p)) = p

\* str::split: the pieces of s between occurrences of the byte sep.
RECURSIVE Split(_, _)
Split(s, sep) ==
    LET i == IndexOf(s, sep)
    IN  IF i = 0 THEN <<s>>
        ELSE <<Take(s, i - 1)>> \o Split(Drop(s, i), sep)

RECURSIVE Concat(_)
Concat(ss) == IF ss = <<>> THEN <<>> ELSE Head(ss) \o Concat(Tail(ss))

(***************************************************************************)
(* Results                                                                 *)
(***************************************************************************)

\* An error value: `kind` is the variant of the error enum, `cause` the variant
\* of the library error it wraps, `at` and `byte` the offset and byte a base64
\* error names, `text` the string a variant carries.
NoErr == [kind |-> "none", cause |-> "", at |-> 0, byte |-> 0, text |-> <<>>]
Err(k) == [kind |-> k, cause |-> "", at |-> 0, byte |-> 0, text |-> <<>>]
ErrAt(k, i, b) == [kind |-> k, cause |-> "", at |-> i, byte |-> b, text |-> <<>>]
ErrText(k, t) == [kind |-> k, cause |-> "", at |-> 0, byte |-> 0, text |-> t]
\* `#[from]`: a library error e wrapped as variant k.
Wrap(k, e) == [kind |-> k, cause |-> e.kind, at |-> e.at, byte |-> e.byte, text |-> e.text]

(***************************************************************************)
(* base64 (the base64 crate's general-purpose engine, without padding)     *)
(***************************************************************************)

\* The value of a symbol in the URL-safe alphabet A-Z a-z 0-9 - _, or -1.
UrlSafeVal(b) ==
    IF IsUpper(b) THEN b - 65
    ELSE IF IsLower(b) THEN b - 71
    ELSE IF IsDigit(b) THEN b + 4
    ELSE IF b = MINUS THEN 62
    ELSE IF b = UNDERSCORE THEN 63
    ELSE -1

\* The value of a symbol in the standard alphabet A-Z a-z 0-9 + /, or -1.
StandardVal(b) ==
    IF IsUpper(b) THEN b - 65
    ELSE IF IsLower(b) THEN b - 71
    ELSE IF IsDigit(b) THEN b + 4
    ELSE IF b = PLUS THEN 62
    ELSE IF b = SLASH THEN 63
    ELSE -1

\* The URL-safe symbol of a six-bit value.
UrlSafeSym(v) ==
    IF v < 26 THEN v + 65
    ELSE IF v < 52 THEN v + 71
    ELSE IF v < 62 THEN v - 4
    ELSE IF v = 62 THEN MINUS
    ELSE UNDERSCORE

\* URL_SAFE_NO_PAD.encode: every 3 bytes give 4 symbols, a final 1 or 2 bytes
\* give 2 or 3 symbols, and no padding is written.
UrlSafeEncode(bytes) ==
    LET n == Len(bytes)
        m == (n * 4 + 2) \div 3
        At(k) == IF k <= n THEN bytes[k] ELSE 0
        Sextet(j) ==
            LET g == (j - 1) \div 4
                p == (j - 1) % 4
                b1 == At(3 * g + 1)
                b2 == At(3 * g + 2)
                b3 == At(3 * g + 3)
            IN  CASE p = 0 -> b1 \div 4
                  [] p = 1 -> (b1 % 4) * 16 + b2 \div 16
                  [] p = 2 -> (b2 % 16) * 4 + b3 \div 64
                  [] OTHER -> b3 % 64
    IN  [j \in 1..m |-> UrlSafeSym(Sextet(j))]

B64Ok(bytes) == [ok |-> TRUE, val |-> bytes, err |-> NoErr]
B64Fail(e) == [ok |-> FALSE, val |-> <<>>, err |-> e]

\* Engine::decode with padding mode RequireNone and trailing bits refused.
\* `engine` names the alphabet.  Offsets in errors count from 0, as in the crate.
\*   - a length of 4k+1 is refused at once: InvalidByte for a last byte outside
\*     the alphabet (other than `=`), InvalidLength otherwise;
\*   - otherwise the first byte outside the alphabet is reported as InvalidByte,
\*     except that `=` in the third or fourth place of a quad of the last chunk
\*     of 8 counts as padding, which RequireNone refuses as InvalidPadding when
\*     only padding follows it;
\*   - a last symbol with bits set beyond the last whole byte is
\*     InvalidLastSymbol.
B64Decode(s, engine) ==
    LET n == Len(s)
        Val(b) == IF engine = "URL_SAFE_NO_PAD" THEN UrlSafeVal(b) ELSE StandardVal(b)
        sfx == IF n = 0 THEN 0 ELSE 8 * ((n - 1) \div 8)
        IsPadAt(i) == s[i] = EQUALS /\ i - 1 >= sfx /\ (i - 1 - sfx) % 4 >= 2
        Byte(v, i) ==
            LET g == (i - 1) \div 3
                q == (i - 1) % 3
            IN  CASE q = 0 -> v[4 * g + 1] * 4 + v[4 * g + 2] \div 16
                  [] q = 1 -> (v[4 * g + 2] % 16) * 16 + v[4 * g + 3] \div 4
                  [] OTHER -> (v[4 * g + 3] % 4) * 64 + v[4 * g + 4]
        Decide(v, firstBad, spare) ==
            IF n % 4 = 1
            THEN IF s[n] # EQUALS /\ v[n] < 0
                 THEN B64Fail(ErrAt("InvalidByte", n - 1, s[n]))
                 ELSE B64Fail(Err("InvalidLength"))
            ELSE IF firstBad # 0
            THEN IF \A i \in firstBad..n : IsPadAt(i)
                 THEN B64Fail(Err("InvalidPadding"))
                 ELSE B64Fail(ErrAt("InvalidByte", firstBad - 1, s[firstBad]))
            ELSE IF spare # 0
            THEN B64Fail(ErrAt("InvalidLastSymbol", n - 1, s[n]))
            ELSE B64Ok([i \in 1..((n * 3) \div 4) |-> Byte(v, i)])
        Scan(v) ==
            Decide(v,
                   IF \E i \in 1..n : v[i] < 0
                   THEN CHOOSE i \in 1..n : v[i] < 0 /\ \A j \in 1..(i - 1) : v[j] >= 0
                   ELSE 0,
                   CASE n % 4 = 2 -> v[n] % 16
                     [] n % 4 = 3 -> v[n] % 4
                     [] OTHER -> 0)
    IN  Scan([k \in 1..(n + 3) |-> IF k <= n THEN Val(s[k]) ELSE 0])

(***************************************************************************)
(* UTF-8                                                                   *)
(***************************************************************************)

IsCont(b) == b >= 128 /\ b <= 191

\* The length of the well-formed UTF-8 sequence at s[i], or 0 when there is
\* none (Unicode table 3-7, as core::str::from_utf8 checks it).
Utf8SeqLen(s, i) ==
    LET n == Len(s)
        b0 == s[i]
        C(k, lo, hi) == i + k <= n /\ s[i + k] >= lo /\ s[i + k] <= hi
    IN  CASE b0 <= 127 -> 1
          [] b0 >= 194 /\ b0 <= 223 -> IF C(1, 128, 191) THEN 2 ELSE 0
          [] b0 = 224 -> IF C(1, 160, 191) /\ C(2, 128, 191) THEN 3 ELSE 0
          [] (b0 >= 225 /\ b0 <= 236) \/ b0 = 238 \/ b0 = 239 ->
                IF C(1, 128, 191) /\ C(2, 128, 191) THEN 3 ELSE 0
          [] b0 = 237 -> IF C(1, 128, 159) /\ C(2, 128, 191) THEN 3 ELSE 0
          [] b0 = 240 ->
                IF C(1, 144, 191) /\ C(2, 128, 191) /\ C(3, 128, 191) THEN 4 ELSE 0
          [] b0 >= 241 /\ b0 <= 243 ->
                IF C(1, 128, 191) /\ C(2, 128, 191) /\ C(3, 128, 191) THEN 4 ELSE 0
          [] b0 = 244 ->
                IF C(1, 128, 143) /\ C(2, 128, 191) /\ C(3, 128, 191) THEN 4 ELSE 0
          [] OTHER -> 0

RECURSIVE Utf8ValidFrom(_, _)
Utf8ValidFrom(s, i) ==
    LET Step(k) == k > 0 /\ Utf8ValidFrom(s, i + k)
    IN  i > Len(s) \/ Step(Utf8SeqLen(s, i))

\* String::from_utf8 succeeds.
IsUtf8(s) == Utf8ValidFrom(s, 1)

\* String::from_utf8_lossy: a byte that starts no well-formed sequence becomes
\* U+FFFD (EF BF BD).
RECURSIVE Utf8LossyFrom(_, _)
Utf8LossyFrom(s, i) ==
    LET Step(k) ==
            IF k > 0 THEN SubSeq(s, i, i + k - 1) \o Utf8LossyFrom(s, i + k)
            ELSE <<239, 191, 189>> \o Utf8LossyFrom(s, i + 1)
    IN  IF i > Len(s) THEN <<>> ELSE Step(Utf8SeqLen(s, i))

Utf8Lossy(s) == Utf8LossyFrom(s, 1)

(***************************************************************************)
(* DEFLATE (flate2's DeflateEncoder and DeflateDecoder)                    *)
(*                                                                         *)
(* The model covers the stored-block form of RFC 1951 (section 3.2.4): a   *)
(* block is a header byte (bit 0 BFINAL, bits 1-2 BTYPE = 00), LEN and its *)
(* one's complement NLEN, each two bytes, low byte first, and LEN bytes of *)
(* data.  The compression level decides only how the encoder cuts the data *)
(* into blocks, so that two levels give different bytes for the same data. *)
(* Blocks with Huffman codes (BTYPE 01, 10) are outside the model: Inflate *)
(* reports them as "Unmodelled", and OnlyStoredBlocks below states that no *)
(* reachable decode meets one.                                             *)
(***************************************************************************)

StoredBlock(final, data) ==
    LET n == Len(data)
    IN  <<IF final THEN 1 ELSE 0, n % 256, n \div 256,
          255 - (n % 256), 255 - (n \div 256)>> \o data

\* DeflateEncoder::new(r, level) read to its end.  "best" is
\* Compression::best(), the level encode uses; "fast" stands for any other
\* level, here the one that ends a block after the first half of the data.
Deflate(data, level) ==
    IF level = "best" \/ Len(data) < 2
    THEN StoredBlock(TRUE, data)
    ELSE LET h == Len(data) \div 2
         IN  StoredBlock(FALSE, Take(data, h)) \o StoredBlock(TRUE, Drop(data, h))

InflateOk(bytes) == [ok |-> TRUE, val |-> bytes, err |-> NoErr]
InflateFail(k) == [ok |-> FALSE, val |-> <<>>, err |-> Err(k)]

\* DeflateDecoder::new(bytes).read_to_end(buf).  A block of type 11 or with
\* NLEN not the complement of LEN is "corrupt deflate stream".  Input that
\* ends before the final block does is not an error in flate2: the reader
\* returns what it has produced (the decompressor asks for more input, there
\* is none, and read reports 0 bytes, which read_to_end takes as the end).
\* Bytes after the final block are not read.
RECURSIVE Inflate(_)
Inflate(bytes) ==
    IF bytes = <<>> THEN InflateOk(<<>>)
    ELSE
    LET hdr == bytes[1]
        final == hdr % 2 = 1
        btype == (hdr \div 2) % 4
        n == Len(bytes)
    IN  IF btype = 3 THEN InflateFail("Corrupt")
        ELSE IF btype # 0 THEN InflateFail("Unmodelled")
        ELSE IF n < 5 THEN InflateOk(<<>>)
        ELSE
        LET len == bytes[2] + 256 * bytes[3]
            nlen == bytes[4] + 256 * bytes[5]
            have == IF n - 5 < len THEN n - 5 ELSE len
            data == SubSeq(bytes, 6, 5 + have)
        IN  IF len + nlen # 65535 THEN InflateFail("Corrupt")
            ELSE IF final \/ have < len THEN InflateOk(data)
            ELSE LET rest == Inflate(Drop(bytes, 5 + len))
                 IN  IF rest.ok THEN InflateOk(data \o rest.val) ELSE rest

(***************************************************************************)
(* MessagePack (rmp_serde::to_vec and rmp_serde::from_read)                *)
(***************************************************************************)

\* A string as rmp writes it: fixstr to 31 bytes, str 8 to 255, str 16 beyond.
MpStr(s) ==
    LET n == Len(s)
    IN  IF n <= 31 THEN <<160 + n>> \o s
        ELSE IF n <= 255 THEN <<217, n>> \o s
        ELSE <<218, n \div 256, n % 256>> \o s

\* An array header as rmp writes it: fixarray to 15 elements, array 16 beyond.
MpArrayHeader(n) ==
    IF n <= 15 THEN <<144 + n>> ELSE <<220, n \div 256, n % 256>>

\* rmp_serde::to_vec(&[&String; N]): the header, then each string in order.
MpArray(strs) ==
    MpArrayHeader(Len(strs)) \o Concat([i \in 1..Len(strs) |-> MpStr(strs[i])])

MpFail(why) == [ok |-> FALSE, val |-> <<>>, pos |-> 0, err |-> Err(why)]

\* The element at data[pos] read as a String: a str (fixstr, str 8, str 16) or
\* a bin (bin 8, bin 16) holding well-formed UTF-8.  val is the string, pos the place after
\* it.
MpReadString(data, pos) ==
    LET n == Len(data)
        m == data[pos]
        Body(from, len) ==
            IF from + len - 1 > n THEN MpFail("InvalidDataRead")
            ELSE IF IsUtf8(SubSeq(data, from, from + len - 1))
            THEN [ok |-> TRUE, val |-> SubSeq(data, from, from + len - 1),
                  pos |-> from + len, err |-> NoErr]
            ELSE MpFail("Utf8Error")
        \* The bytes of the length after the marker: none, one or two.
        Sized(extra) ==
            IF pos + extra > n THEN MpFail("InvalidDataRead")
            ELSE Body(pos + 1 + extra,
                      CASE extra = 0 -> m - 160
                        [] extra = 1 -> data[pos + 1]
                        [] OTHER -> 256 * data[pos + 1] + data[pos + 2])
    IN  IF pos > n THEN MpFail("InvalidMarkerRead")
        ELSE IF ~((m >= 160 /\ m <= 191) \/ m \in {196, 197, 217, 218})
        THEN MpFail("TypeMismatch")
        ELSE Sized(IF m \in {197, 218} THEN 2 ELSE IF m \in {196, 217} THEN 1 ELSE 0)

\* The k strings from data[pos] on.
RECURSIVE MpReadStrings(_, _, _)
MpReadStrings(data, pos, k) ==
    LET Cons(one, rest) ==
            IF ~rest.ok THEN rest
            ELSE [rest EXCEPT !.val = <<one.val>> \o rest.val]
        Then(one) ==
            IF ~one.ok THEN one
            ELSE Cons(one, MpReadStrings(data, one.pos, k - 1))
    IN  IF k = 0 THEN [ok |-> TRUE, val |-> <<>>, pos |-> pos, err |-> NoErr]
        ELSE Then(MpReadString(data, pos))

\* Array reading that takes an array longer than wanted and drops the rest:
\* C23 rejects it.
MpReadArrayDropsRest(data, want) ==
    LET n == Len(data)
        m == IF n = 0 THEN 0 ELSE data[1]
        Checked(got, len) ==
            IF ~got.ok THEN got
            ELSE IF len < want THEN MpFail("InvalidLength")
            ELSE got
        Elements(from, len) ==
            Checked(MpReadStrings(data, from, IF len < want THEN len ELSE want), len)
    IN  IF n = 0 THEN MpFail("InvalidMarkerRead")
        ELSE IF ~((m >= 144 /\ m <= 159) \/ m = 220) THEN MpFail("TypeMismatch")
        ELSE IF m = 220 /\ n < 3 THEN MpFail("InvalidDataRead")
        ELSE Elements(IF m = 220 THEN 4 ELSE 2,
                      IF m = 220 THEN 256 * data[2] + data[3] ELSE m - 144)

\* rmp_serde::from_read::<_, [String; want]>(data): the value must be an array;
\* its elements are read as strings until `want` are read or the array ends;
\* an array that ends early is serde's invalid_length, and one with elements
\* left over is rmp_serde's LengthMismatch.  Bytes after the value are not
\* read.
MpReadArray(data, want) ==
    LET n == Len(data)
        m == IF n = 0 THEN 0 ELSE data[1]
        Checked(got, len) ==
            IF ~got.ok THEN got
            ELSE IF len < want THEN MpFail("InvalidLength")
            ELSE IF len > want THEN MpFail("LengthMismatch")
            ELSE got
        Elements(from, len) ==
            Checked(MpReadStrings(data, from, IF len < want THEN len ELSE want), len)
    IN  IF n = 0 THEN MpFail("InvalidMarkerRead")
        ELSE IF ~((m >= 144 /\ m <= 159) \/ m = 220) THEN MpFail("TypeMismatch")
        ELSE IF m = 220 /\ n < 3 THEN MpFail("InvalidDataRead")
        ELSE Elements(IF m = 220 THEN 4 ELSE 2,
                      IF m = 220 THEN 256 * data[2] + data[3] ELSE m - 144)

(***************************************************************************)
(* Sandbox A: the raw link state (src/src/ato/link.rs)                     *)
(***************************************************************************)

\* What a Result holds in place of a state when it is an Err.
NoState == [schema |-> "none"]

\* struct LinkState with LinkState::default(): LinkSchema defaults to V1 and
\* every String to the empty string.
LinkStateDefault ==
    [schema |-> "V1", language |-> <<>>, options |-> <<>>, header |-> <<>>,
     header_encoding |-> <<>>, code |-> <<>>, code_encoding |-> <<>>,
     footer |-> <<>>, footer_encoding |-> <<>>, program_arguments |-> <<>>,
     input |-> <<>>, input_encoding |-> <<>>]

\* A V0 record with code and input in each other's place: a wrong reading of
\* the field order that the round trip of C1 rejects.
RecordV0InputFirst(s) ==
    <<s.language, s.header, s.header_encoding, s.input, s.code_encoding,
      s.footer, s.footer_encoding, s.code, s.input_encoding>>

\* The positional record of a state under schema V0.
RecordV0(s) ==
    <<s.language, s.header, s.header_encoding, s.code, s.code_encoding,
      s.footer, s.footer_encoding, s.input, s.input_encoding>>

\* The positional record of a state under schema V1.
RecordV1(s) ==
    <<s.language, s.options, s.header, s.header_encoding, s.code,
      s.code_encoding, s.footer, s.footer_encoding, s.program_arguments,
      s.input, s.input_encoding>>

\* LinkState::serialize_mp.
serialize_mp(s) ==
    IF s.schema = "V0" THEN MpArray(RecordV0(s)) ELSE MpArray(RecordV1(s))

\* A V0 record read with its header taken for the options as well: C25
\* rejects it.
StateOfV0OptionsFromHeader(d) ==
    [schema |-> "V0", language |-> d[1], options |-> d[2], header |-> d[2],
     header_encoding |-> d[3], code |-> d[4], code_encoding |-> d[5],
     footer |-> d[6], footer_encoding |-> d[7], program_arguments |-> <<>>,
     input |-> d[8], input_encoding |-> d[9]]

\* The state of a V0 record: options and program_arguments are String::new().
StateOfV0(d) ==
    [schema |-> "V0", language |-> d[1], options |-> <<>>, header |-> d[2],
     header_encoding |-> d[3], code |-> d[4], code_encoding |-> d[5],
     footer |-> d[6], footer_encoding |-> d[7], program_arguments |-> <<>>,
     input |-> d[8], input_encoding |-> d[9]]

\* The state of a V1 record.
StateOfV1(d) ==
    [schema |-> "V1", language |-> d[1], options |-> d[2], header |-> d[3],
     header_encoding |-> d[4], code |-> d[5], code_encoding |-> d[6],
     footer |-> d[7], footer_encoding |-> d[8], program_arguments |-> d[9],
     input |-> d[10], input_encoding |-> d[11]]

\* LinkState::deserialize_mp.
deserialize_mp(schema, data) ==
    LET Typed(r) ==
            IF ~r.ok
            THEN [ok |-> FALSE, state |-> NoState, err |-> Wrap("MessagePack", r.err)]
            ELSE [ok |-> TRUE,
                  state |-> IF schema = "V0" THEN StateOfV0(r.val) ELSE StateOfV1(r.val),
                  err |-> NoErr]
    IN  Typed(MpReadArray(data, IF schema = "V0" THEN 9 ELSE 11))

(***************************************************************************)
(* URLs (the url crate)                                                    *)
(*                                                                         *)
(* Url::parse is modelled for links of the shape                           *)
(*     scheme "://" host [path] ["?" query] ["#" fragment]                 *)
(* with scheme http or https, no user info and no port.  The model's links *)
(* hold no dot segment, no tab or newline and no byte of the fragment      *)
(* percent-encode set, which are the inputs the parser rewrites.           *)
(***************************************************************************)

None == [some |-> FALSE, val |-> <<>>]
Some(v) == [some |-> TRUE, val |-> v]

ToLower(s) == [i \in 1..Len(s) |-> IF IsUpper(s[i]) THEN s[i] + 32 ELSE s[i]]

\* A forbidden host code point, which makes Url::parse fail.
ForbiddenHostByte(b) ==
    b <= 32 \/ b >= 127 \/
    b \in {HASH, PERCENT, SLASH, COLON, LESS, GREATER, QUESTION,
           AT, LBRACKET, BACKSLASH, RBRACKET, CARET, BAR}

\* A label of a host that is a decimal number of at most three digits
\* without a leading zero, and its value.
IsDecimalLabel(p) ==
    /\ Len(p) \in 1..3
    /\ \A i \in 1..Len(p) : IsDigit(p[i])
    /\ Len(p) > 1 => p[1] # Ord("0")

RECURSIVE DecimalValue(_)
DecimalValue(p) ==
    IF p = <<>> THEN 0 ELSE 10 * DecimalValue(Take(p, Len(p) - 1)) + (p[Len(p)] - 48)

\* The host is an IPv4 address written as four decimal numbers: the form of
\* an address the model covers.
IsIpv4Host(host) ==
    LET Quad(parts) ==
            /\ Len(parts) = 4
            /\ \A i \in 1..4 : IsDecimalLabel(parts[i]) /\ DecimalValue(parts[i]) <= 255
    IN  Quad(Split(host, Ord(".")))

\* The host's last label is a number, so that the URL parser reads the host
\* as an IPv4 address.
EndsInNumber(host) ==
    LET Last(parts) ==
            parts[Len(parts)] # <<>>
                /\ \A i \in 1..Len(parts[Len(parts)]) : IsDigit(parts[Len(parts)][i])
    IN  Last(Split(host, Ord(".")))

UrlFail(why) ==
    [ok |-> FALSE, scheme |-> <<>>, host |-> <<>>, domain |-> None, path |-> <<>>,
     query |-> None, fragment |-> None, err |-> Wrap("Url", Err(why))]

\* Url::parse.  The host of an http(s) link is lower-cased; an empty path is
\* "/"; the query runs from the first `?` to the first `#`, the fragment from
\* the first `#` to the end, and each is None when its delimiter is absent.
\* `domain` is what Url::domain returns: the host, unless it is an address.
UrlParse(text) ==
    LET \* The parts, once they are cut.
        Parts(https, host, path, query, fragment) ==
            IF host = <<>> THEN UrlFail("EmptyHost")
            ELSE IF \E i \in 1..Len(host) : ForbiddenHostByte(host[i])
            THEN UrlFail("InvalidDomainCharacter")
            ELSE IF EndsInNumber(host) /\ ~IsIpv4Host(host) THEN UrlFail("Unmodelled")
            ELSE [ok |-> TRUE,
                  scheme |-> IF https THEN HTTPS ELSE HTTP,
                  host |-> ToLower(host),
                  domain |-> IF EndsInNumber(host) THEN None ELSE Some(ToLower(host)),
                  path |-> IF path = <<>> THEN ROOT_PATH ELSE path,
                  query |-> query,
                  fragment |-> fragment,
                  err |-> NoErr]
        \* The query starts at the first `?` before the fragment.
        CutQuery(https, host, beforeHash, qm, fragment) ==
            Parts(https, host,
                  IF qm = 0 THEN beforeHash ELSE Take(beforeHash, qm - 1),
                  IF qm = 0 THEN None ELSE Some(Drop(beforeHash, qm)),
                  fragment)
        BeforeHash(https, host, beforeHash, fragment) ==
            CutQuery(https, host, beforeHash, IndexOf(beforeHash, QUESTION), fragment)
        \* The fragment starts at the first `#`.
        CutFragment(https, host, after, hash) ==
            BeforeHash(https, host,
                       IF hash = 0 THEN after ELSE Take(after, hash - 1),
                       IF hash = 0 THEN None ELSE Some(Drop(after, hash)))
        AfterHost(https, host, after) ==
            CutFragment(https, host, after, IndexOf(after, HASH))
        \* The host ends at the first `/`, `?` or `#`.
        CutHost(https, rest, hEnd) ==
            AfterHost(https,
                      IF hEnd = 0 THEN rest ELSE Take(rest, hEnd - 1),
                      IF hEnd = 0 THEN <<>> ELSE Drop(rest, hEnd - 1))
        AfterScheme(https, rest) ==
            CutHost(https, rest, FirstIn(rest, {SLASH, QUESTION, HASH}))
        Schemed(https, http) ==
            IF ~https /\ ~http THEN UrlFail("RelativeUrlWithoutBase")
            ELSE AfterScheme(https,
                             Drop(text, IF https THEN Len(HTTPS_PREFIX)
                                        ELSE Len(HTTP_PREFIX)))
    IN  Schemed(StartsWith(text, HTTPS_PREFIX), StartsWith(text, HTTP_PREFIX))

IsHex(b) == IsDigit(b) \/ (b >= 65 /\ b <= 70) \/ (b >= 97 /\ b <= 102)
HexVal(b) == IF IsDigit(b) THEN b - 48 ELSE IF b >= 97 THEN b - 87 ELSE b - 55

\* form_urlencoded's decoding of a name or value: `+` is a space, `%` and two
\* hex digits are the byte they spell, and the bytes are read as UTF-8 with
\* U+FFFD for what is not.
RECURSIVE PercentDecodeFrom(_, _)
PercentDecodeFrom(s, i) ==
    IF i > Len(s) THEN <<>>
    ELSE IF s[i] = PERCENT /\ i + 2 <= Len(s) /\ IsHex(s[i + 1]) /\ IsHex(s[i + 2])
    THEN <<16 * HexVal(s[i + 1]) + HexVal(s[i + 2])>> \o PercentDecodeFrom(s, i + 3)
    ELSE <<IF s[i] = PLUS THEN SPACE ELSE s[i]>> \o PercentDecodeFrom(s, i + 1)

FormDecode(s) == Utf8Lossy(PercentDecodeFrom(s, 1))

\* Url::query_pairs: the query is cut at every `&`, empty pieces are skipped,
\* and each piece is cut at its first `=` into a name and a value (a piece
\* without `=` has the empty value).
QueryPairs(u) ==
    LET NonEmpty(p) == p # <<>>
        Cut(p, e) ==
            [key |-> FormDecode(IF e = 0 THEN p ELSE Take(p, e - 1)),
             value |-> IF e = 0 THEN <<>> ELSE FormDecode(Drop(p, e))]
        Pair(p) == Cut(p, IndexOf(p, EQUALS))
        Pairs(kept) == [i \in 1..Len(kept) |-> Pair(kept[i])]
    IN  Pairs(SelectSeq(IF u.query.some THEN Split(u.query.val, AMPERSAND) ELSE <<>>,
                        NonEmpty))

(***************************************************************************)
(* Sandbox A: decoding and encoding a link (src/src/ato/link.rs)           *)
(***************************************************************************)

\* const RUN_URL.
RUN_URL == B("https://ato.pxeger.com/run")

NoData == [some |-> FALSE, schema |-> "none", value |-> <<>>]
SomeData(schema, value) == [some |-> TRUE, schema |-> schema, value |-> value]

IsSchemaKey(k) == k = KEY_0 \/ k = KEY_1
IsLanguageKey(k) == k = KEY_L \/ k = KEY_l

\* A scan in which a later schema key replaces an earlier one (what the
\* sandbox's own front end does, per the comment in decode_url): a wrong
\* reading that C7 rejects.
RECURSIVE ScanPairsLastWins(_, _, _, _)
ScanPairsLastWins(pairs, i, data, language) ==
    IF i > Len(pairs)
    THEN [ok |-> TRUE, data |-> data, language |-> language, err |-> NoErr]
    ELSE
    LET key == pairs[i].key
        value == pairs[i].value
        Fail(e) == [ok |-> FALSE, data |-> NoData, language |-> None, err |-> e]
    IN  IF IsLanguageKey(key)
        THEN IF language.some THEN Fail(Err("MultipleLanguages"))
             ELSE ScanPairsLastWins(pairs, i + 1, data, Some(value))
        ELSE IF ~IsSchemaKey(key) THEN Fail(ErrText("UnknownKey", key))
        ELSE ScanPairsLastWins(pairs, i + 1,
                       SomeData(IF key = KEY_0 THEN "V0" ELSE "V1", value), language)

\* The loop of decode_url over the query pairs, from pair i on, with the
\* values of `data` and `language` so far.  It returns at the first pair that
\* is an error: a second language key, an unknown key, a second schema key.
RECURSIVE ScanPairs(_, _, _, _)
ScanPairs(pairs, i, data, language) ==
    IF i > Len(pairs)
    THEN [ok |-> TRUE, data |-> data, language |-> language, err |-> NoErr]
    ELSE
    LET key == pairs[i].key
        value == pairs[i].value
        Fail(e) == [ok |-> FALSE, data |-> NoData, language |-> None, err |-> e]
    IN  IF IsLanguageKey(key)
        THEN IF language.some THEN Fail(Err("MultipleLanguages"))
             ELSE ScanPairs(pairs, i + 1, data, Some(value))
        ELSE IF ~IsSchemaKey(key) THEN Fail(ErrText("UnknownKey", key))
        ELSE IF data.some THEN Fail(Err("MultipleVersions"))
        ELSE ScanPairs(pairs, i + 1,
                       SomeData(IF key = KEY_0 THEN "V0" ELSE "V1", value), language)

\* A class without the standard alphabet's `+` and `/`: a wrong reading of
\* the TIDY regex that C6 rejects.
TidyKeepsUrlSafe(b) ==
    IsUpper(b) \/ IsLower(b) \/ IsDigit(b) \/ b \in {MINUS, UNDERSCORE}

\* The bytes the TIDY regex [^A-Za-z0-9+/\-_]+ leaves in place.
TidyKeeps(b) ==
    IsUpper(b) \/ IsLower(b) \/ IsDigit(b) \/
    b \in {PLUS, SLASH, MINUS, UNDERSCORE}

\* TIDY.replace_all(data, ""): every byte outside the class is removed.
Tidy(data) == SelectSeq(data, TidyKeeps)

\* A base64 step that reports the retry's error when both decodes fail: a
\* wrong reading of `map_err(|_| err)` that C5 rejects.
Base64LenientRetryError(data) ==
    LET Retried(strict, retry) ==
            IF retry.ok
            THEN [ok |-> TRUE, val |-> retry.val, err |-> NoErr,
                  stages |-> <<"base64", "tidy", "base64_retry">>]
            ELSE [ok |-> FALSE, val |-> <<>>, err |-> Wrap("Base64", retry.err),
                  stages |-> <<"base64", "tidy", "base64_retry">>]
        Strict(strict) ==
            IF strict.ok
            THEN [ok |-> TRUE, val |-> strict.val, err |-> NoErr,
                  stages |-> <<"base64">>]
            ELSE Retried(strict, B64Decode(Tidy(data), "URL_SAFE_NO_PAD"))
    IN  Strict(B64Decode(data, "URL_SAFE_NO_PAD"))

\* The base64 step of decode_url: the strict URL-safe decode, and only when it
\* fails the decode of the tidied value, whose failure is reported as the
\* strict decode's error.  `stages` names the steps taken.
Base64Lenient(data) ==
    LET Retried(strict, retry) ==
            IF retry.ok
            THEN [ok |-> TRUE, val |-> retry.val, err |-> NoErr,
                  stages |-> <<"base64", "tidy", "base64_retry">>]
            ELSE [ok |-> FALSE, val |-> <<>>, err |-> Wrap("Base64", strict.err),
                  stages |-> <<"base64", "tidy", "base64_retry">>]
        Strict(strict) ==
            IF strict.ok
            THEN [ok |-> TRUE, val |-> strict.val, err |-> NoErr,
                  stages |-> <<"base64">>]
            ELSE Retried(strict, B64Decode(Tidy(data), "URL_SAFE_NO_PAD"))
    IN  Strict(B64Decode(data, "URL_SAFE_NO_PAD"))

DecodeUrlFail(e, stages) ==
    [ok |-> FALSE, data |-> NoData, language |-> None, err |-> e, stages |-> stages]

\* LinkState::decode_url: the schema and decompressed payload of the link, if
\* it has a schema key, and the value of its language key, if it has one.
decode_url(link) ==
    LET Inflated(scan, b64, buf) ==
            IF ~buf.ok
            THEN DecodeUrlFail(Wrap("Deflate", buf.err),
                               <<"url_parse", "query_scan">> \o b64.stages \o <<"inflate">>)
            ELSE [ok |-> TRUE, data |-> SomeData(scan.data.schema, buf.val),
                  language |-> scan.language, err |-> NoErr,
                  stages |-> <<"url_parse", "query_scan">> \o b64.stages \o <<"inflate">>]
        Decoded(scan, b64) ==
            IF ~b64.ok
            THEN DecodeUrlFail(b64.err, <<"url_parse", "query_scan">> \o b64.stages)
            ELSE Inflated(scan, b64, Inflate(b64.val))
        Scanned(scan) ==
            IF ~scan.ok THEN DecodeUrlFail(scan.err, <<"url_parse", "query_scan">>)
            ELSE IF ~scan.data.some
            THEN [ok |-> TRUE, data |-> NoData, language |-> scan.language,
                  err |-> NoErr, stages |-> <<"url_parse", "query_scan">>]
            ELSE Decoded(scan, Base64Lenient(scan.data.value))
        Parsed(u) ==
            IF ~u.ok THEN DecodeUrlFail(u.err, <<"url_parse">>)
            ELSE Scanned(ScanPairs(QueryPairs(u), 1, NoData, None))
    IN  Parsed(UrlParse(link))

\* A decode that never takes the language key's value: a wrong reading that
\* C8 rejects.
BackfillNever(state, language) == state

\* The language backfill of decode: the language key's value is taken only
\* when the state's language is empty.
Backfill(state, language) ==
    IF language.some /\ state.language = <<>>
    THEN [state EXCEPT !.language = language.val]
    ELSE state

DecodeFail(e, stages) ==
    [ok |-> FALSE, state |-> NoState, err |-> e, stages |-> stages]

\* A decoder that goes on after a payload that does not unpack: it backfills
\* the default state and returns it together with the error. C24 rejects it.
decode_GoesOnAfterUnpack(link) ==
    LET Unpacked(du, mp) ==
            IF ~mp.ok
            THEN [ok |-> FALSE, state |-> Backfill(LinkStateDefault, du.language),
                  err |-> mp.err, stages |-> du.stages \o <<"unpack", "backfill">>]
            ELSE [ok |-> TRUE, state |-> Backfill(mp.state, du.language),
                  err |-> NoErr, stages |-> du.stages \o <<"unpack", "backfill">>]
        Payload(du) ==
            IF ~du.ok THEN DecodeFail(du.err, du.stages)
            ELSE IF ~du.data.some
            THEN [ok |-> TRUE, state |-> Backfill(LinkStateDefault, du.language),
                  err |-> NoErr, stages |-> du.stages \o <<"backfill">>]
            ELSE Unpacked(du, deserialize_mp(du.data.schema, du.data.value))
    IN  Payload(decode_url(link))

\* LinkState::decode.
decode(link) ==
    LET Unpacked(du, mp) ==
            IF ~mp.ok THEN DecodeFail(mp.err, du.stages \o <<"unpack">>)
            ELSE [ok |-> TRUE, state |-> Backfill(mp.state, du.language),
                  err |-> NoErr, stages |-> du.stages \o <<"unpack", "backfill">>]
        Payload(du) ==
            IF ~du.ok THEN DecodeFail(du.err, du.stages)
            ELSE IF ~du.data.some
            THEN [ok |-> TRUE, state |-> Backfill(LinkStateDefault, du.language),
                  err |-> NoErr, stages |-> du.stages \o <<"backfill">>]
            ELSE Unpacked(du, deserialize_mp(du.data.schema, du.data.value))
    IN  Payload(decode_url(link))

\* LinkState::encode_url: the payload is compressed at `level`, written in
\* URL-safe base64 without padding after `0=` or `1=`, and set as the query of
\* RUN_URL.
encode_url(schema, mp, level) ==
    RUN_URL \o QUERY_MARK \o (IF schema = "V0" THEN PREFIX_V0 ELSE PREFIX_V1)
            \o UrlSafeEncode(Deflate(mp, level))

\* LinkState::encode.  Neither serialize_mp nor the compression of a buffer
\* in memory can fail, so the result is always Ok.
encode(s) == encode_url(s.schema, serialize_mp(s), "best")

(***************************************************************************)
(* Sandbox A: the earlier decoder (src/src/ato.rs)                         *)
(***************************************************************************)

\* The loop of State::decode_url: a language key overwrites the language
\* read so far, an unknown key is InvalidKey.
RECURSIVE State_ScanPairs(_, _, _, _)
State_ScanPairs(pairs, i, data, language) ==
    IF i > Len(pairs)
    THEN [ok |-> TRUE, data |-> data, language |-> language, err |-> NoErr]
    ELSE
    LET key == pairs[i].key
        value == pairs[i].value
        Fail(e) == [ok |-> FALSE, data |-> NoData, language |-> None, err |-> e]
    IN  IF IsLanguageKey(key)
        THEN State_ScanPairs(pairs, i + 1, data, Some(value))
        ELSE IF ~IsSchemaKey(key) THEN Fail(ErrText("InvalidKey", key))
        ELSE IF data.some THEN Fail(Err("MultipleVersions"))
        ELSE State_ScanPairs(pairs, i + 1,
                             SomeData(IF key = KEY_0 THEN "V0" ELSE "V1", value), language)

\* State::decode_url: the strict URL-safe decode only.
State_decode_url(link) ==
    LET Inflated(scan, buf) ==
            IF ~buf.ok
            THEN DecodeUrlFail(Wrap("Deflate", buf.err),
                               <<"url_parse", "query_scan", "base64", "inflate">>)
            ELSE [ok |-> TRUE, data |-> SomeData(scan.data.schema, buf.val),
                  language |-> scan.language, err |-> NoErr,
                  stages |-> <<"url_parse", "query_scan", "base64", "inflate">>]
        Decoded(scan, b64) ==
            IF ~b64.ok
            THEN DecodeUrlFail(Wrap("Base64", b64.err),
                               <<"url_parse", "query_scan", "base64">>)
            ELSE Inflated(scan, Inflate(b64.val))
        Scanned(scan) ==
            IF ~scan.ok THEN DecodeUrlFail(scan.err, <<"url_parse", "query_scan">>)
            ELSE IF ~scan.data.some
            THEN [ok |-> TRUE, data |-> NoData, language |-> scan.language,
                  err |-> NoErr, stages |-> <<"url_parse", "query_scan">>]
            ELSE Decoded(scan, B64Decode(scan.data.value, "URL_SAFE_NO_PAD"))
        Parsed(u) ==
            IF ~u.ok THEN DecodeUrlFail(u.err, <<"url_parse">>)
            ELSE Scanned(State_ScanPairs(QueryPairs(u), 1, NoData, None))
    IN  Parsed(UrlParse(link))

\* State::decode.  (The function it calls to unpack the record is the one
\* ato.rs names serialize_mp; it reads the record as deserialize_mp does.)
State_decode(link) ==
    LET Unpacked(du, mp) ==
            IF ~mp.ok THEN DecodeFail(mp.err, du.stages \o <<"unpack">>)
            ELSE [ok |-> TRUE, state |-> Backfill(mp.state, du.language),
                  err |-> NoErr, stages |-> du.stages \o <<"unpack", "backfill">>]
        Payload(du) ==
            IF ~du.ok THEN DecodeFail(du.err, du.stages)
            ELSE IF ~du.data.some
            THEN [ok |-> TRUE, state |-> Backfill(LinkStateDefault, du.language),
                  err |-> NoErr, stages |-> du.stages \o <<"backfill">>]
            ELSE Unpacked(du, deserialize_mp(du.data.schema, du.data.value))
    IN  Payload(State_decode_url(link))

(***************************************************************************)
(* The callers of sandbox A: bounded inputs                                *)
(***************************************************************************)

\* The most fields of a state the caller sets to a non-empty text.
MaxEdits == 2

\* The String fields of LinkState.
StringFields ==
    {"language", "options", "header", "header_encoding", "code",
     "code_encoding", "footer", "footer_encoding", "program_arguments",
     "input", "input_encoding"}

\* Sample field texts: ASCII, a two-byte character, and a JSON list.
Texts == {B("a"), <<195, 169>>, B("[\"-e\"]")}

\* The states a caller builds: either schema, at most MaxEdits fields set.
AtoStates ==
    LET Few == {F \in SUBSET StringFields : Cardinality(F) <= MaxEdits}
        Edits == UNION {[F -> Texts] : F \in Few}
    IN  {[n \in StringFields \cup {"schema"} |->
            IF n = "schema" THEN schema
            ELSE IF n \in DOMAIN e THEN e[n] ELSE <<>>] :
         schema \in {"V0", "V1"}, e \in Edits}

\* The most characters from the end of a schema value at which the caller's
\* link has a foreign text spliced in.
MaxJunkBack == 1

\* The most `&`-separated pieces in the query of a link with several keys.
MaxKeys == 3

\* The states whose links the caller is given: a V1 state with a language, a
\* V1 state without one, a V0 state.
LinkPayloads ==
    {[LinkStateDefault EXCEPT !.language = B("a"), !.code = <<195, 169>>],
     [LinkStateDefault EXCEPT !.code = B("a")],
     [LinkStateDefault EXCEPT !.schema = "V0", !.language = B("a"), !.input = B("a")]}

\* The schema value of a state's link at a compression level.
SchemaValue(s, level) == UrlSafeEncode(Deflate(serialize_mp(s), level))

\* Texts found spliced into real links or written in place of a symbol: a
\* percent-encoded cedilla (tests::junk_in_base64), padding, a full stop, the
\* standard alphabet's `+` (a space to the query parser) and `/`, and a
\* percent-encoded `+`.
Junk == {B("%C2%B8"), B("="), B("."), B("+"), B("/"), B("%2B")}

InsertAt(v, k, t) == Take(v, k) \o t \o Drop(v, k)

\* v with - written as + and/or _ written as /.
Respell(v, plus, slash) ==
    [i \in 1..Len(v) |->
        IF plus /\ v[i] = MINUS THEN PLUS
        ELSE IF slash /\ v[i] = UNDERSCORE THEN SLASH
        ELSE v[i]]

\* The schema values of the links for one state: the canonical value, the
\* value at another compression level, the value with junk spliced in at the
\* start or near the end, with a symbol lost as well, in the standard
\* alphabet (wholly or in part), and cut short.
ValuesOf(s) ==
    LET c == SchemaValue(s, "best")
        n == Len(c)
        At == {0} \cup {n - j : j \in 0..MaxJunkBack}
    IN  {c, SchemaValue(s, "fast"), Take(c, n - 1), Take(c, n - 2)}
        \cup {InsertAt(c, k, t) : k \in At, t \in Junk}
        \cup {InsertAt(Take(c, n - 1), k, t) : k \in At \ {n}, t \in Junk}
        \cup {Respell(c, TRUE, TRUE), Respell(c, TRUE, FALSE), Respell(c, FALSE, TRUE)}

SchemaPrefix(s) == IF s.schema = "V0" THEN PREFIX_V0 ELSE PREFIX_V1

\* Query pieces with one schema key each.
SchemaPieces == UNION {{SchemaPrefix(s) \o v : v \in ValuesOf(s)} : s \in LinkPayloads}

\* Query pieces of links with several keys: a canonical schema value of each
\* payload, language keys, an unknown key.
FewPieces ==
    {SchemaPrefix(s) \o SchemaValue(s, "best") : s \in LinkPayloads}
    \cup {B("L=b"), B("l=c"), B("x=1")}

RECURSIVE JoinWith(_, _)
JoinWith(ss, sep) ==
    IF ss = <<>> THEN <<>>
    ELSE IF Len(ss) = 1 THEN ss[1]
    ELSE ss[1] \o <<sep>> \o JoinWith(Tail(ss), sep)

\* An element of a hand-made MessagePack array: a str, a bin, a small
\* integer, nil or an empty array, with the text it holds if it holds one.
ElementBytes(e) ==
    IF e.type = "str" THEN MpStr(e.text)
    ELSE IF e.type = "bin" THEN <<196, Len(e.text)>> \o e.text
    ELSE IF e.type = "int" THEN <<5>>
    ELSE IF e.type = "nil" THEN <<192>>
    ELSE <<144>>

\* The array of the elements.
ShapeBytes(shape) ==
    MpArrayHeader(Len(shape)) \o Concat([i \in 1..Len(shape) |-> ElementBytes(shape[i])])

\* The arrays whose links the caller is given: n strings, each its own letter,
\* for the lengths about 9 and 11, and arrays of 9 and 11 elements with one
\* element, the third or the last, that is no str.
RecordShapes ==
    LET Letters(n) == [i \in 1..n |-> [type |-> "str", text |-> <<96 + i>>]]
    IN  {Letters(n) : n \in {0, 8, 9, 10, 11, 12}}
        \cup {[Letters(n) EXCEPT ![IF last THEN n ELSE 3] = [type |-> type, text |-> B("x")]] :
                n \in {9, 11}, last \in BOOLEAN, type \in {"bin", "int", "nil", "array"}}
        \cup {[Letters(9) EXCEPT ![3] = [type |-> "bin", text |-> <<255>>]]}

\* Payloads that are no array: a str, a map, nothing.
NotArrays == {MpStr(B("a")), <<128>>, <<>>}

\* The links with these payloads under either schema key.
RecordLinks ==
    {encode_url(schema, mp, "best") :
        schema \in {"V0", "V1"},
        mp \in {ShapeBytes(shape) : shape \in RecordShapes} \cup NotArrays}

\* The links a caller is given: a single schema key with each value, alone
\* or followed by a language key; up to MaxKeys pieces in every order; no
\* query, an empty one, a key without value, a fragment; and text that is
\* no URL.
AtoLinks ==
    {RUN_URL \o QUERY_MARK \o p : p \in SchemaPieces}
    \cup {RUN_URL \o QUERY_MARK \o p \o B("&L=b") : p \in SchemaPieces}
    \cup {RUN_URL \o QUERY_MARK \o JoinWith(ps, AMPERSAND) :
            ps \in UNION {[1..k -> FewPieces] : k \in 1..MaxKeys}}
    \cup {RUN_URL, RUN_URL \o QUERY_MARK, RUN_URL \o B("?1"), RUN_URL \o B("?1="),
          RUN_URL \o B("?L=b#x"), B("ato.pxeger.com/run?L=b")}
    \cup RecordLinks

NoResult == [ok |-> FALSE, state |-> NoState, err |-> NoErr, stages |-> <<>>]
NoParsed == [ok |-> FALSE, val |-> <<>>, err |-> NoErr]

\* The registry of a caller that never resolves a language, and the result
\* of a typed stage that has not run.
NoRegistry == [available |-> FALSE, ids |-> {}, fetched |-> FALSE, lookups |-> <<>>]
NoTyped == [ok |-> FALSE, state |-> NoState, err |-> NoErr]

\* The LANGUAGES static before its first use: its Once has not run, the cell
\* is empty, no fetch was started and no call has returned a map.
NoOnce == [state |-> "incomplete", value |-> {}, fetches |-> 0, observed |-> {}]
\* No thread calls the registry.
NoThreads == <<>>

(***************************************************************************)
(* The callers of sandbox A: a state is encoded and the link decoded; a    *)
(* link is decoded, its state encoded again and that link decoded.         *)
(***************************************************************************)

InitAto ==
    /\ sandbox = "ato"
    /\ \/ pc = "state" /\ st \in AtoStates /\ url = <<>>
       \/ pc = "link" /\ st = NoState /\ url \in AtoLinks
    /\ dec = NoResult
    /\ url2 = <<>>
    /\ dec2 = NoResult
    /\ args = <<>>
    /\ parsed = NoParsed
    /\ registry = NoRegistry
    /\ typed = NoTyped
    /\ once = NoOnce
    /\ threads = NoThreads

\* state.encode() on the caller's state.
AtoEncode ==
    /\ sandbox = "ato" /\ pc = "state"
    /\ url' = encode(st)
    /\ pc' = "link"
    /\ UNCHANGED <<once, threads, registry, typed, args, parsed, sandbox, st, dec, url2, dec2>>

\* LinkState::decode(link).
AtoDecode ==
    /\ sandbox = "ato" /\ pc = "link"
    /\ dec' = decode(url)
    /\ pc' = "decoded"
    /\ UNCHANGED <<once, threads, registry, typed, args, parsed, sandbox, st, url, url2, dec2>>

\* state.encode() on a decoded state, as tests::roundtrip_all does.
AtoReencode ==
    /\ sandbox = "ato" /\ pc = "decoded" /\ dec.ok
    /\ url2' = encode(dec.state)
    /\ pc' = "reencoded"
    /\ UNCHANGED <<once, threads, registry, typed, args, parsed, sandbox, st, url, dec, dec2>>

\* LinkState::decode of the link encoded again.
AtoDecodeAgain ==
    /\ sandbox = "ato" /\ pc = "reencoded"
    /\ dec2' = decode(url2)
    /\ pc' = "done"
    /\ UNCHANGED <<once, threads, registry, typed, args, parsed, sandbox, st, url, dec, url2>>

\* State::decode(link), the decoder of ato.rs, on the same link.
AtoLegacyDecode ==
    /\ sandbox = "ato" /\ pc = "link"
    /\ dec' = State_decode(url)
    /\ pc' = "legacy_decoded"
    /\ UNCHANGED <<once, threads, registry, typed, args, parsed, sandbox, st, url, url2, dec2>>

NextAto ==
    AtoEncode \/ AtoDecode \/ AtoLegacyDecode \/ AtoReencode \/ AtoDecodeAgain

SpecAto == InitAto /\ [][NextAto]_vars

\* C1: a sandbox-A state with schema V1, or with schema V0 and empty options
\* and program_arguments, that is encoded and decoded comes back Ok and equal
\* in every field, schema included.
C1_RoundTripA ==
    (sandbox = "ato" /\ st # NoState /\ pc \in {"decoded", "reencoded", "done"}
        /\ (st.schema = "V1" \/ (st.options = <<>> /\ st.program_arguments = <<>>)))
    => (dec.ok /\ dec.state = st)

\* C1's case: a V0 state with text in its fields came back from its link.
C1_Witness ==
    /\ sandbox = "ato" /\ pc = "decoded" /\ st # NoState
    /\ st.schema = "V0" /\ st.code # <<>> /\ st.input # <<>>
    /\ dec.ok /\ dec.state = st

(***************************************************************************)
(* What a sandbox-A link holds, as the query parser delivers it            *)
(***************************************************************************)

LinkPairs(link) ==
    LET u == UrlParse(link) IN IF u.ok THEN QueryPairs(u) ELSE <<>>

\* The places of the link's schema keys, language keys and other keys.
SchemaKeyAt(link) ==
    LET pairs == LinkPairs(link) IN {i \in 1..Len(pairs) : IsSchemaKey(pairs[i].key)}
LanguageKeyAt(link) ==
    LET pairs == LinkPairs(link) IN {i \in 1..Len(pairs) : IsLanguageKey(pairs[i].key)}
UnknownKeyAt(link) ==
    LET pairs == LinkPairs(link)
    IN  {i \in 1..Len(pairs) : ~IsSchemaKey(pairs[i].key) /\ ~IsLanguageKey(pairs[i].key)}

Min(S) == CHOOSE x \in S : \A y \in S : x <= y

\* The place of the second key among the places S, or 0.
SecondOf(S) == IF Cardinality(S) < 2 THEN 0 ELSE Min(S \ {Min(S)})

\* The value of the link's only schema key, as decode_url hands it to base64.
DeliveredValue(link) == LinkPairs(link)[Min(SchemaKeyAt(link))].value

\* The link with the text of its schema value replaced by v.
IsSchemaPiece(p) ==
    p \in {KEY_0, KEY_1} \/ StartsWith(p, PREFIX_V0) \/ StartsWith(p, PREFIX_V1)

WithSchemaValue(link, v) ==
    LET u == UrlParse(link)
        pieces == Split(u.query.val, AMPERSAND)
    IN  u.scheme \o B("://") \o u.host \o u.path \o QUERY_MARK \o
        JoinWith([i \in 1..Len(pieces) |->
                    IF IsSchemaPiece(pieces[i]) THEN Take(pieces[i], 1) \o <<EQUALS>> \o v
                    ELSE pieces[i]], AMPERSAND)

\* The cleaned link: the schema value without the bytes the leniency pass
\* removes.
CleanedLink(link) == WithSchemaValue(link, Tidy(DeliveredValue(link)))

\* The text of the link's schema value as written in the link.
RawSchemaValue(link) ==
    LET pieces == Split(UrlParse(link).query.val, AMPERSAND)
    IN  Drop(pieces[Min({i \in 1..Len(pieces) : IsSchemaPiece(pieces[i])})], 2)

Count(seq, x) == Cardinality({i \in 1..Len(seq) : seq[i] = x})

\* The link was decoded by LinkState::decode and has exactly one schema key
\* and no key that stops the scan.
OneSchemaKeyDecoded ==
    /\ sandbox = "ato" /\ pc \in {"decoded", "reencoded", "done"}
    /\ Cardinality(SchemaKeyAt(url)) = 1
    /\ UnknownKeyAt(url) = {} /\ Cardinality(LanguageKeyAt(url)) <= 1

\* C5: the leniency pass of sandbox A is a single fallback.  The strict
\* URL-safe decode comes first and nothing is stripped when it succeeds; when
\* it fails the value is tidied and decoded once more; if that succeeds the
\* result is that of the cleaned link, which is also what the state encodes
\* to again; if it fails the error is the strict decode's.
C5_Leniency ==
    OneSchemaKeyDecoded =>
        LET v == DeliveredValue(url)
            strict == B64Decode(v, "URL_SAFE_NO_PAD")
            retry == B64Decode(Tidy(v), "URL_SAFE_NO_PAD")
            clean == decode(CleanedLink(url))
        IN  /\ Count(dec.stages, "base64") = 1
            /\ strict.ok => /\ Count(dec.stages, "tidy") = 0
                            /\ Count(dec.stages, "base64_retry") = 0
            /\ ~strict.ok => /\ Count(dec.stages, "tidy") = 1
                             /\ Count(dec.stages, "base64_retry") = 1
            /\ (~strict.ok /\ retry.ok) =>
                    /\ dec.ok = clean.ok /\ dec.state = clean.state /\ dec.err = clean.err
                    /\ clean.stages = <<"url_parse", "query_scan", "base64">>
                                        \o SubSeq(dec.stages, 6, Len(dec.stages))
                    /\ pc \in {"reencoded", "done"} => url2 = encode(clean.state)
            /\ (~strict.ok /\ ~retry.ok) =>
                    /\ ~dec.ok /\ dec.state = NoState
                    /\ dec.err = Wrap("Base64", strict.err)

\* C5's case: a canonical link with junk spliced in was decoded through the
\* retry and encoded again to the cleaned link.
C5_Witness ==
    /\ OneSchemaKeyDecoded /\ pc = "reencoded"
    /\ Count(dec.stages, "base64_retry") = 1 /\ dec.ok
    /\ url2 = CleanedLink(url) /\ url2 # url

\* The retry failed with an error other than the strict decode's, and the
\* strict decode's is the one returned.
C5_RetryFailsOtherwise ==
    /\ OneSchemaKeyDecoded /\ ~dec.ok
    /\ Count(dec.stages, "base64_retry") = 1
    /\ B64Decode(Tidy(DeliveredValue(url)), "URL_SAFE_NO_PAD").err
         # B64Decode(DeliveredValue(url), "URL_SAFE_NO_PAD").err


\* v with + written as - and / written as _.
UrlSafeSpelling(v) ==
    [i \in 1..Len(v) |->
        IF v[i] = PLUS THEN MINUS ELSE IF v[i] = SLASH THEN UNDERSCORE ELSE v[i]]

\* The schema value of the decoded link is written in base64 symbols only,
\* some of them the standard alphabet's, and its URL-safe spelling decodes.
StandardSpelled ==
    /\ OneSchemaKeyDecoded
    /\ \A i \in 1..Len(RawSchemaValue(url)) : TidyKeeps(RawSchemaValue(url)[i])
    /\ Contains(RawSchemaValue(url), PLUS) \/ Contains(RawSchemaValue(url), SLASH)
    /\ decode(WithSchemaValue(url, UrlSafeSpelling(RawSchemaValue(url)))).ok

\* C6 as stated: a schema value with `+` and `/` in it decodes to what its
\* URL-safe spelling decodes to.
C6_StandardTolerated ==
    StandardSpelled =>
        /\ dec.ok
        /\ dec.state = decode(WithSchemaValue(url, UrlSafeSpelling(RawSchemaValue(url)))).state

\* C6 (amended): the standard alphabet is not read as base64.  A schema value
\* that reaches the decoder with `+` or `/` in it (a `/`, or a `+` written as
\* %2B) fails the strict decode and, since the leniency pass leaves both
\* bytes in place, the retry as well: the link is rejected with the strict
\* decode's base64 error.  A `+` written literally is a space to the query
\* parser, so it never reaches the decoder: the leniency pass removes it and
\* the link decodes as the link without it does.
C6_StandardRejected ==
    OneSchemaKeyDecoded =>
        LET raw == RawSchemaValue(url)
            v == DeliveredValue(url)
            NotPlus(b) == b # PLUS
            bare == decode(WithSchemaValue(url, SelectSeq(raw, NotPlus)))
        IN  /\ (Contains(v, PLUS) \/ Contains(v, SLASH)) =>
                /\ ~dec.ok /\ dec.state = NoState
                /\ dec.err = Wrap("Base64", B64Decode(v, "URL_SAFE_NO_PAD").err)
                /\ dec.stages = <<"url_parse", "query_scan", "base64", "tidy", "base64_retry">>
            /\ Contains(raw, PLUS) =>
                /\ Count(v, SPACE) >= Count(raw, PLUS)
                /\ Count(dec.stages, "tidy") = 1
                /\ dec.ok = bare.ok /\ dec.state = bare.state
                /\ (dec.ok /\ pc \in {"reencoded", "done"}) => url2 = encode(bare.state)

\* C6's case: the canonical value with its `_` written as `/` was rejected.
C6_Witness ==
    /\ StandardSpelled /\ pc = "decoded"
    /\ Contains(DeliveredValue(url), SLASH)
    /\ ~dec.ok /\ dec.err.kind = "Base64" /\ dec.err.cause = "InvalidByte"
    /\ dec.err.byte = SLASH

\* A value with a literal `+` spliced in decoded as the value without it.
C6_PlusStripped ==
    /\ OneSchemaKeyDecoded /\ pc = "decoded"
    /\ Contains(RawSchemaValue(url), PLUS) /\ dec.ok
    /\ ~Contains(DeliveredValue(url), PLUS)

\* C7 as stated: a link with a second schema key is rejected with
\* MultipleVersions before any decoding of a value.
C7_AlwaysMultipleVersions ==
    (sandbox = "ato" /\ pc \in {"decoded", "reencoded", "done"}
        /\ Cardinality(SchemaKeyAt(url)) >= 2)
    => /\ ~dec.ok /\ dec.err.kind = "MultipleVersions"
       /\ dec.stages = <<"url_parse", "query_scan">>

\* The first place at which the scan of the link's keys stops: the second
\* schema key, an unknown key or the second language key.
FirstStop(link) ==
    Min(({SecondOf(SchemaKeyAt(link)), SecondOf(LanguageKeyAt(link))} \ {0})
        \cup UnknownKeyAt(link))

\* C7 (amended): a link with a second schema key is always rejected before
\* any base64 decoding or decompression of a value; the error is that of the
\* first offending key in query order, MultipleVersions when the second
\* schema key comes before every unknown key and before a second language
\* key, else UnknownKey or MultipleLanguages.
C7_SecondSchemaKey ==
    (sandbox = "ato" /\ pc \in {"decoded", "reencoded", "done"}
        /\ Cardinality(SchemaKeyAt(url)) >= 2)
    => /\ ~dec.ok /\ dec.state = NoState
       /\ dec.stages = <<"url_parse", "query_scan">>
       /\ dec.err.kind =
            IF FirstStop(url) = SecondOf(SchemaKeyAt(url)) THEN "MultipleVersions"
            ELSE IF FirstStop(url) \in UnknownKeyAt(url) THEN "UnknownKey"
            ELSE "MultipleLanguages"
       /\ dec.err.kind = "UnknownKey" => dec.err.text = LinkPairs(url)[FirstStop(url)].key

\* C7's case: a link with a `0` key and a `1` key, both values decodable, was
\* rejected with MultipleVersions.
C7_Witness ==
    /\ sandbox = "ato" /\ pc = "decoded"
    /\ \E i, j \in SchemaKeyAt(url) :
          LinkPairs(url)[i].key = KEY_0 /\ LinkPairs(url)[j].key = KEY_1
    /\ \A i \in SchemaKeyAt(url) : B64Decode(LinkPairs(url)[i].value, "URL_SAFE_NO_PAD").ok
    /\ ~dec.ok /\ dec.err.kind = "MultipleVersions"

\* C8: a link that parses as a URL and has no schema key in its query is not
\* rejected for that: no value is decoded; the result is the default state
\* (schema V1, every field empty) with the language key's value as its
\* language when there is one; the only failures are an unknown key and a
\* second language key.
C8_NoSchemaKey ==
    (sandbox = "ato" /\ pc \in {"decoded", "reencoded", "done"}
        /\ UrlParse(url).ok /\ SchemaKeyAt(url) = {})
    => /\ dec.ok <=> (UnknownKeyAt(url) = {} /\ Cardinality(LanguageKeyAt(url)) <= 1)
       /\ dec.ok =>
            /\ dec.state.schema = "V1"
            /\ \A f \in StringFields \ {"language"} : dec.state[f] = <<>>
            /\ dec.state.language =
                 IF LanguageKeyAt(url) = {} THEN <<>>
                 ELSE LinkPairs(url)[Min(LanguageKeyAt(url))].value
            /\ dec.stages = <<"url_parse", "query_scan", "backfill">>
       /\ ~dec.ok => dec.err.kind \in {"UnknownKey", "MultipleLanguages"}

\* C8's case: a link with a language key and no schema key was decoded to the
\* default state with that language.
C8_Witness ==
    /\ sandbox = "ato" /\ pc = "decoded" /\ UrlParse(url).ok
    /\ SchemaKeyAt(url) = {} /\ Cardinality(LanguageKeyAt(url)) = 1
    /\ dec.ok /\ dec.state = [LinkStateDefault EXCEPT !.language = B("b")]

\* The link without its language keys.
WithoutLanguageKeys(link) ==
    LET u == UrlParse(link)
        pieces == Split(u.query.val, AMPERSAND)
        NotLanguage(p) == ~(StartsWith(p, B("L=")) \/ StartsWith(p, B("l=")))
    IN  u.scheme \o B("://") \o u.host \o u.path \o QUERY_MARK \o
        JoinWith(SelectSeq(pieces, NotLanguage), AMPERSAND)

\* C9 as stated, for both decoders of sandbox A, read as a statement about
\* links with no other flaw (no unknown key, at most one schema key): the
\* language key's value is the state's language exactly when the record has
\* none, the key is no schema key, and two or more language keys are
\* rejected with MultipleLanguages.
C9_LanguageOverride ==
    (sandbox = "ato" /\ pc \in {"decoded", "legacy_decoded"} /\ UrlParse(url).ok
        /\ UnknownKeyAt(url) = {} /\ Cardinality(SchemaKeyAt(url)) <= 1
        /\ LanguageKeyAt(url) # {})
    => LET bare == IF pc = "decoded" THEN decode(WithoutLanguageKeys(url))
                   ELSE State_decode(WithoutLanguageKeys(url))
       IN  /\ Cardinality(LanguageKeyAt(url)) >= 2 =>
                (~dec.ok /\ dec.err.kind = "MultipleLanguages")
           /\ Cardinality(LanguageKeyAt(url)) = 1 =>
                /\ dec.ok = bare.ok
                /\ dec.ok => dec.state =
                     IF bare.state.language = <<>>
                     THEN [bare.state EXCEPT
                             !.language = LinkPairs(url)[Min(LanguageKeyAt(url))].value]
                     ELSE bare.state


(***************************************************************************)
(* Sandbox B: decoding and encoding a link (src/src/tio/link.rs)           *)
(***************************************************************************)

\* struct LinkState of sandbox B with LinkState::default(): LinkSchema
\* defaults to V2, LinkDomain to Tio.  args is a list of texts.
TioLinkStateDefault ==
    [schema |-> "V2", domain |-> "Tio", language |-> <<>>, code |-> <<>>,
     input |-> <<>>, args |-> <<>>, debug |-> FALSE]

TIO_RUN == B("tio.run")
TRYITONLINE_NET == B("tryitonline.net")
DOT_TRYITONLINE_NET == B(".tryitonline.net")
NEXUS_PATH == B("/nexus/")
FIELD_CODE == B("code")
FIELD_INPUT == B("input")
FIELD_ARGS == B("args")
FIELD_DEBUG == B("debug")

\* str::split_once: the text before and after the first b, if there is one.
SplitOnce(s, b) ==
    LET i == IndexOf(s, b)
    IN  IF i = 0 THEN [some |-> FALSE, left |-> <<>>, right |-> <<>>]
        ELSE [some |-> TRUE, left |-> Take(s, i - 1), right |-> Drop(s, i)]

TioFieldOk(text) == [ok |-> TRUE, val |-> text, err |-> NoErr]
TioFieldFail(e) == [ok |-> FALSE, val |-> <<>>, err |-> e]

\* decode_field: the strict URL-safe decode, on failure the decode in the
\* standard alphabet, whose failure is reported as the URL-safe decode's
\* error; the bytes must then be UTF-8.
decode_field(s) ==
    LET Text(b) ==
            IF ~IsUtf8(b.val) THEN TioFieldFail(Err("Utf8"))
            ELSE TioFieldOk(b.val)
        Standard(strict, standard) ==
            IF ~standard.ok THEN TioFieldFail(Wrap("Base64", strict.err))
            ELSE Text(standard)
        Strict(strict) ==
            IF strict.ok THEN Text(strict)
            ELSE Standard(strict, B64Decode(s, "STANDARD_NO_PAD"))
    IN  Strict(B64Decode(s, "URL_SAFE_NO_PAD"))

\* value.split('+').map(decode_field).collect(): the decoded sub-values, or
\* the error of the first that fails.
RECURSIVE DecodeArgs(_)
DecodeArgs(parts) ==
    LET Cons(d, rest) ==
            IF ~rest.ok THEN rest
            ELSE [ok |-> TRUE, val |-> <<d.val>> \o rest.val, err |-> NoErr]
        Then(d) ==
            IF ~d.ok THEN [ok |-> FALSE, val |-> <<>>, err |-> d.err]
            ELSE Cons(d, DecodeArgs(Tail(parts)))
    IN  IF parts = <<>> THEN [ok |-> TRUE, val |-> <<>>, err |-> NoErr]
        ELSE Then(decode_field(Head(parts)))

NoFields == [code |-> None, input |-> None, args |-> None, debug |-> None]

\* A loop that takes `input` only after `code`: a reading of the field loop
\* under which the order of the fields matters, which C27 rejects.
RECURSIVE ScanFieldsCodeFirst(_, _, _)
ScanFieldsCodeFirst(fields, i, acc) ==
    LET Fail(e) == [ok |-> FALSE, acc |-> NoFields, err |-> e]
        Next(a) == ScanFieldsCodeFirst(fields, i + 1, a)
        One(key, one) ==
            IF ~one.ok THEN Fail(one.err)
            ELSE IF key = FIELD_CODE THEN Next([acc EXCEPT !.code = Some(one.val)])
            ELSE Next([acc EXCEPT !.input = Some(one.val)])
        Many(many) ==
            IF ~many.ok THEN Fail(many.err)
            ELSE Next([acc EXCEPT !.args = Some(many.val)])
        Field(key, value) ==
            IF Contains(value, EQUALS) THEN Fail(Err("FieldContainsEquals"))
            ELSE IF (key = FIELD_CODE /\ ~acc.code.some)
                        \/ (key = FIELD_INPUT /\ ~acc.input.some /\ acc.code.some)
            THEN One(key, decode_field(value))
            ELSE IF key = FIELD_ARGS /\ ~acc.args.some
            THEN Many(DecodeArgs(Split(value, PLUS)))
            ELSE IF key = FIELD_DEBUG /\ ~acc.debug.some
            THEN Next([acc EXCEPT !.debug = Some(TRUE)])
            ELSE IF key \in {FIELD_CODE, FIELD_INPUT, FIELD_ARGS, FIELD_DEBUG}
            THEN Fail(ErrText("DuplicateField", key))
            ELSE Fail(ErrText("UnknownField", key))
        Cut(kv) ==
            IF ~kv.some THEN Next(acc)
            ELSE Field(kv.left, kv.right)
    IN  IF i > Len(fields) THEN [ok |-> TRUE, acc |-> acc, err |-> NoErr]
        ELSE Cut(SplitOnce(fields[i], EQUALS))

\* A loop that passes over a field with an unknown key: C22 rejects it.
RECURSIVE ScanFieldsSkipUnknown(_, _, _)
ScanFieldsSkipUnknown(fields, i, acc) ==
    LET Fail(e) == [ok |-> FALSE, acc |-> NoFields, err |-> e]
        Next(a) == ScanFieldsSkipUnknown(fields, i + 1, a)
        One(key, one) ==
            IF ~one.ok THEN Fail(one.err)
            ELSE IF key = FIELD_CODE THEN Next([acc EXCEPT !.code = Some(one.val)])
            ELSE Next([acc EXCEPT !.input = Some(one.val)])
        Many(many) ==
            IF ~many.ok THEN Fail(many.err)
            ELSE Next([acc EXCEPT !.args = Some(many.val)])
        Field(key, value) ==
            IF Contains(value, EQUALS) THEN Fail(Err("FieldContainsEquals"))
            ELSE IF (key = FIELD_CODE /\ ~acc.code.some)
                        \/ (key = FIELD_INPUT /\ ~acc.input.some)
            THEN One(key, decode_field(value))
            ELSE IF key = FIELD_ARGS /\ ~acc.args.some
            THEN Many(DecodeArgs(Split(value, PLUS)))
            ELSE IF key = FIELD_DEBUG /\ ~acc.debug.some
            THEN Next([acc EXCEPT !.debug = Some(TRUE)])
            ELSE IF key \in {FIELD_CODE, FIELD_INPUT, FIELD_ARGS, FIELD_DEBUG}
            THEN Fail(ErrText("DuplicateField", key))
            ELSE Next(acc)
        Cut(kv) ==
            IF ~kv.some THEN Next(acc)
            ELSE Field(kv.left, kv.right)
    IN  IF i > Len(fields) THEN [ok |-> TRUE, acc |-> acc, err |-> NoErr]
        ELSE Cut(SplitOnce(fields[i], EQUALS))

\* A loop that sets debug only for a non-empty value, the reading of the
\* `debug` arm that C18 states and the code does not follow.
RECURSIVE ScanFieldsDebugNonEmpty(_, _, _)
ScanFieldsDebugNonEmpty(fields, i, acc) ==
    LET Fail(e) == [ok |-> FALSE, acc |-> NoFields, err |-> e]
        Next(a) == ScanFieldsDebugNonEmpty(fields, i + 1, a)
        One(key, one) ==
            IF ~one.ok THEN Fail(one.err)
            ELSE IF key = FIELD_CODE THEN Next([acc EXCEPT !.code = Some(one.val)])
            ELSE Next([acc EXCEPT !.input = Some(one.val)])
        Many(many) ==
            IF ~many.ok THEN Fail(many.err)
            ELSE Next([acc EXCEPT !.args = Some(many.val)])
        Field(key, value) ==
            IF Contains(value, EQUALS) THEN Fail(Err("FieldContainsEquals"))
            ELSE IF (key = FIELD_CODE /\ ~acc.code.some)
                        \/ (key = FIELD_INPUT /\ ~acc.input.some)
            THEN One(key, decode_field(value))
            ELSE IF key = FIELD_ARGS /\ ~acc.args.some
            THEN Many(DecodeArgs(Split(value, PLUS)))
            ELSE IF key = FIELD_DEBUG /\ ~acc.debug.some
            THEN Next([acc EXCEPT !.debug = Some(value # <<>>)])
            ELSE IF key \in {FIELD_CODE, FIELD_INPUT, FIELD_ARGS, FIELD_DEBUG}
            THEN Fail(ErrText("DuplicateField", key))
            ELSE Fail(ErrText("UnknownField", key))
        Cut(kv) ==
            IF ~kv.some THEN Next(acc)
            ELSE Field(kv.left, kv.right)
    IN  IF i > Len(fields) THEN [ok |-> TRUE, acc |-> acc, err |-> NoErr]
        ELSE Cut(SplitOnce(fields[i], EQUALS))

\* A loop that matches the key before it looks for a `=` in the value, so
\* that an unknown or duplicate key hides the `=`: C17 rejects it.
RECURSIVE ScanFieldsKeyFirst(_, _, _)
ScanFieldsKeyFirst(fields, i, acc) ==
    LET Fail(e) == [ok |-> FALSE, acc |-> NoFields, err |-> e]
        Next(a) == ScanFieldsKeyFirst(fields, i + 1, a)
        One(key, one) ==
            IF ~one.ok THEN Fail(one.err)
            ELSE IF key = FIELD_CODE THEN Next([acc EXCEPT !.code = Some(one.val)])
            ELSE Next([acc EXCEPT !.input = Some(one.val)])
        Many(many) ==
            IF ~many.ok THEN Fail(many.err)
            ELSE Next([acc EXCEPT !.args = Some(many.val)])
        Known(key, value) ==
            IF Contains(value, EQUALS) THEN Fail(Err("FieldContainsEquals"))
            ELSE IF key \in {FIELD_CODE, FIELD_INPUT} THEN One(key, decode_field(value))
            ELSE IF key = FIELD_ARGS THEN Many(DecodeArgs(Split(value, PLUS)))
            ELSE Next([acc EXCEPT !.debug = Some(TRUE)])
        Field(key, value) ==
            IF (key = FIELD_CODE /\ ~acc.code.some)
                  \/ (key = FIELD_INPUT /\ ~acc.input.some)
                  \/ (key = FIELD_ARGS /\ ~acc.args.some)
                  \/ (key = FIELD_DEBUG /\ ~acc.debug.some)
            THEN Known(key, value)
            ELSE IF key \in {FIELD_CODE, FIELD_INPUT, FIELD_ARGS, FIELD_DEBUG}
            THEN Fail(ErrText("DuplicateField", key))
            ELSE Fail(ErrText("UnknownField", key))
        Cut(kv) ==
            IF ~kv.some THEN Next(acc)
            ELSE Field(kv.left, kv.right)
    IN  IF i > Len(fields) THEN [ok |-> TRUE, acc |-> acc, err |-> NoErr]
        ELSE Cut(SplitOnce(fields[i], EQUALS))

\* A loop that takes a field without `=` for an unknown field, the empty
\* field of a link without fragment included: a wrong reading of the
\* `if let Some((key, value))` of decode_v1 that C15 rejects.
RECURSIVE ScanFieldsBareFieldUnknown(_, _, _)
ScanFieldsBareFieldUnknown(fields, i, acc) ==
    LET Fail(e) == [ok |-> FALSE, acc |-> NoFields, err |-> e]
        Next(a) == ScanFieldsBareFieldUnknown(fields, i + 1, a)
        One(key, one) ==
            IF ~one.ok THEN Fail(one.err)
            ELSE IF key = FIELD_CODE THEN Next([acc EXCEPT !.code = Some(one.val)])
            ELSE Next([acc EXCEPT !.input = Some(one.val)])
        Many(many) ==
            IF ~many.ok THEN Fail(many.err)
            ELSE Next([acc EXCEPT !.args = Some(many.val)])
        Field(key, value) ==
            IF Contains(value, EQUALS) THEN Fail(Err("FieldContainsEquals"))
            ELSE IF (key = FIELD_CODE /\ ~acc.code.some)
                        \/ (key = FIELD_INPUT /\ ~acc.input.some)
            THEN One(key, decode_field(value))
            ELSE IF key = FIELD_ARGS /\ ~acc.args.some
            THEN Many(DecodeArgs(Split(value, PLUS)))
            ELSE IF key = FIELD_DEBUG /\ ~acc.debug.some
            THEN Next([acc EXCEPT !.debug = Some(TRUE)])
            ELSE IF key \in {FIELD_CODE, FIELD_INPUT, FIELD_ARGS, FIELD_DEBUG}
            THEN Fail(ErrText("DuplicateField", key))
            ELSE Fail(ErrText("UnknownField", key))
        Cut(kv) ==
            IF ~kv.some THEN Fail(ErrText("UnknownField", fields[i]))
            ELSE Field(kv.left, kv.right)
    IN  IF i > Len(fields) THEN [ok |-> TRUE, acc |-> acc, err |-> NoErr]
        ELSE Cut(SplitOnce(fields[i], EQUALS))

\* The loop of decode_v1 over the `&`-separated fields of the fragment, from
\* field i on, with the fields read so far.  A field without `=` is passed
\* over.
RECURSIVE ScanFields(_, _, _)
ScanFields(fields, i, acc) ==
    LET Fail(e) == [ok |-> FALSE, acc |-> NoFields, err |-> e]
        Next(a) == ScanFields(fields, i + 1, a)
        One(key, one) ==
            IF ~one.ok THEN Fail(one.err)
            ELSE IF key = FIELD_CODE THEN Next([acc EXCEPT !.code = Some(one.val)])
            ELSE Next([acc EXCEPT !.input = Some(one.val)])
        Many(many) ==
            IF ~many.ok THEN Fail(many.err)
            ELSE Next([acc EXCEPT !.args = Some(many.val)])
        Field(key, value) ==
            IF Contains(value, EQUALS) THEN Fail(Err("FieldContainsEquals"))
            ELSE IF (key = FIELD_CODE /\ ~acc.code.some)
                        \/ (key = FIELD_INPUT /\ ~acc.input.some)
            THEN One(key, decode_field(value))
            ELSE IF key = FIELD_ARGS /\ ~acc.args.some
            THEN Many(DecodeArgs(Split(value, PLUS)))
            ELSE IF key = FIELD_DEBUG /\ ~acc.debug.some
            THEN Next([acc EXCEPT !.debug = Some(TRUE)])
            ELSE IF key \in {FIELD_CODE, FIELD_INPUT, FIELD_ARGS, FIELD_DEBUG}
            THEN Fail(ErrText("DuplicateField", key))
            ELSE Fail(ErrText("UnknownField", key))
        Cut(kv) == IF ~kv.some THEN Next(acc) ELSE Field(kv.left, kv.right)
    IN  IF i > Len(fields) THEN [ok |-> TRUE, acc |-> acc, err |-> NoErr]
        ELSE Cut(SplitOnce(fields[i], EQUALS))

\* A decoder that takes every link of tio.run for a Tio link, the /nexus/
\* path included: C20 rejects it.
decode_v1_NexusAsTio(link) ==
    LET Fail(e) == [ok |-> FALSE, state |-> NoState, err |-> e, stages |-> <<>>]
        Or(opt, default) == IF opt.some THEN opt.val ELSE default
        Built(domain, language, scan) ==
            IF ~scan.ok THEN Fail(scan.err)
            ELSE [ok |-> TRUE,
                  state |-> [schema |-> "V1", domain |-> domain,
                             language |-> Or(language, <<>>),
                             code |-> Or(scan.acc.code, <<>>),
                             input |-> Or(scan.acc.input, <<>>),
                             args |-> Or(scan.acc.args, <<>>),
                             debug |-> Or(scan.acc.debug, FALSE)],
                  err |-> NoErr, stages |-> <<>>]
        Fragment(domain, fromUrl, whole, lf) ==
            IF lf.some /\ fromUrl.some THEN Fail(Err("MultipleLanguages"))
            ELSE Built(domain,
                       IF lf.some THEN Some(lf.left) ELSE fromUrl,
                       ScanFields(Split(IF lf.some THEN lf.right ELSE whole, AMPERSAND),
                                  1, NoFields))
        Host(host, path, nexus, whole) ==
            IF ~(host = TIO_RUN \/ host = TRYITONLINE_NET
                    \/ EndsWith(host, DOT_TRYITONLINE_NET))
            THEN Fail(ErrText("UnknownDomain", host))
            ELSE Fragment(IF host = TIO_RUN THEN "Tio" ELSE "TryItOnline",
                          IF host = TIO_RUN THEN None
                          ELSE IF host = TRYITONLINE_NET THEN None
                          ELSE Some(Take(host, Len(host) - Len(DOT_TRYITONLINE_NET))),
                          whole,
                          SplitOnce(whole, HASH))
        Parsed(u) ==
            IF ~u.ok THEN Fail(u.err)
            ELSE IF ~u.domain.some THEN Fail(ErrText("UnknownDomain", <<>>))
            ELSE Host(u.domain.val, u.path, StartsWith(u.path, NEXUS_PATH),
                      IF u.fragment.some THEN u.fragment.val ELSE <<>>)
    IN  Parsed(UrlParse(link))

\* A decoder that demands a `code` field and rejects a link without one: the
\* reading of decode_v1 that C16 states and the code does not follow.
decode_v1_CodeRequired(link) ==
    LET Fail(e) == [ok |-> FALSE, state |-> NoState, err |-> e, stages |-> <<>>]
        Or(opt, default) == IF opt.some THEN opt.val ELSE default
        Built(domain, language, scan) ==
            IF ~scan.ok THEN Fail(scan.err)
            ELSE IF ~scan.acc.code.some THEN Fail(ErrText("UnknownField", FIELD_CODE))
            ELSE [ok |-> TRUE,
                  state |-> [schema |-> "V1", domain |-> domain,
                             language |-> Or(language, <<>>),
                             code |-> Or(scan.acc.code, <<>>),
                             input |-> Or(scan.acc.input, <<>>),
                             args |-> Or(scan.acc.args, <<>>),
                             debug |-> Or(scan.acc.debug, FALSE)],
                  err |-> NoErr, stages |-> <<>>]
        Fragment(domain, fromUrl, whole, lf) ==
            IF lf.some /\ fromUrl.some THEN Fail(Err("MultipleLanguages"))
            ELSE Built(domain,
                       IF lf.some THEN Some(lf.left) ELSE fromUrl,
                       ScanFields(Split(IF lf.some THEN lf.right ELSE whole, AMPERSAND),
                                  1, NoFields))
        Host(host, path, nexus, whole) ==
            IF ~(host = TIO_RUN \/ host = TRYITONLINE_NET
                    \/ EndsWith(host, DOT_TRYITONLINE_NET))
            THEN Fail(ErrText("UnknownDomain", host))
            ELSE Fragment(IF host = TIO_RUN THEN (IF nexus THEN "TioNexus" ELSE "Tio")
                          ELSE "TryItOnline",
                          IF host = TIO_RUN
                          THEN (IF nexus THEN Some(Drop(path, Len(NEXUS_PATH))) ELSE None)
                          ELSE IF host = TRYITONLINE_NET THEN None
                          ELSE Some(Take(host, Len(host) - Len(DOT_TRYITONLINE_NET))),
                          whole,
                          SplitOnce(whole, HASH))
        Parsed(u) ==
            IF ~u.ok THEN Fail(u.err)
            ELSE IF ~u.domain.some THEN Fail(ErrText("UnknownDomain", <<>>))
            ELSE Host(u.domain.val, u.path, StartsWith(u.path, NEXUS_PATH),
                      IF u.fragment.some THEN u.fragment.val ELSE <<>>)
    IN  Parsed(UrlParse(link))

\* LinkState::decode_v1.
decode_v1(link) ==
    LET Fail(e) == [ok |-> FALSE, state |-> NoState, err |-> e, stages |-> <<>>]
        Or(opt, default) == IF opt.some THEN opt.val ELSE default
        Built(domain, language, scan) ==
            IF ~scan.ok THEN Fail(scan.err)
            ELSE [ok |-> TRUE,
                  state |-> [schema |-> "V1", domain |-> domain,
                             language |-> Or(language, <<>>),
                             code |-> Or(scan.acc.code, <<>>),
                             input |-> Or(scan.acc.input, <<>>),
                             args |-> Or(scan.acc.args, <<>>),
                             debug |-> Or(scan.acc.debug, FALSE)],
                  err |-> NoErr, stages |-> <<>>]
        \* The language before a `#` in the fragment, and the fields after it.
        Fragment(domain, fromUrl, whole, lf) ==
            IF lf.some /\ fromUrl.some THEN Fail(Err("MultipleLanguages"))
            ELSE Built(domain,
                       IF lf.some THEN Some(lf.left) ELSE fromUrl,
                       ScanFields(Split(IF lf.some THEN lf.right ELSE whole, AMPERSAND),
                                  1, NoFields))
        \* The domain, and the language the path or the host names.
        Host(host, path, nexus, whole) ==
            IF ~(host = TIO_RUN \/ host = TRYITONLINE_NET
                    \/ EndsWith(host, DOT_TRYITONLINE_NET))
            THEN Fail(ErrText("UnknownDomain", host))
            ELSE Fragment(IF host = TIO_RUN THEN (IF nexus THEN "TioNexus" ELSE "Tio")
                          ELSE "TryItOnline",
                          IF host = TIO_RUN
                          THEN (IF nexus THEN Some(Drop(path, Len(NEXUS_PATH))) ELSE None)
                          ELSE IF host = TRYITONLINE_NET THEN None
                          ELSE Some(Take(host, Len(host) - Len(DOT_TRYITONLINE_NET))),
                          whole,
                          SplitOnce(whole, HASH))
        \* u.domain() is None for a host that is an address.
        Parsed(u) ==
            IF ~u.ok THEN Fail(u.err)
            ELSE IF ~u.domain.some THEN Fail(ErrText("UnknownDomain", <<>>))
            ELSE Host(u.domain.val, u.path, StartsWith(u.path, NEXUS_PATH),
                      IF u.fragment.some THEN u.fragment.val ELSE <<>>)
    IN  Parsed(UrlParse(link))

\* Args written with `&args=` before every one of them: a wrong reading of
\* the loop of encode_v1 that C3 rejects.
RECURSIVE EncodeArgsRepeated(_, _)
EncodeArgsRepeated(list, i) ==
    IF i > Len(list) THEN <<>>
    ELSE B("&args=") \o UrlSafeEncode(list[i]) \o EncodeArgsRepeated(list, i + 1)

\* The args of encode_v1: `&args=` before the first, `+` before the others.
RECURSIVE EncodeArgs(_, _)
EncodeArgs(list, i) ==
    IF i > Len(list) THEN <<>>
    ELSE (IF i = 1 THEN B("&args=") ELSE <<PLUS>>)
            \o UrlSafeEncode(list[i]) \o EncodeArgs(list, i + 1)

\* LinkState::encode_v1 past its assertion.
encode_v1(s) ==
    (IF s.domain = "Tio" THEN B("https://tio.run/#") \o s.language
     ELSE IF s.domain = "TioNexus" THEN B("https://tio.run/nexus/") \o s.language
     ELSE IF s.language = <<>> THEN B("http://tryitonline.net/")
     ELSE B("http://") \o s.language \o B(".tryitonline.net/"))
    \o B("#code=") \o UrlSafeEncode(s.code)
    \o B("&input=") \o UrlSafeEncode(s.input)
    \o EncodeArgs(s.args, 1)
    \o (IF s.debug THEN B("&debug=on") ELSE <<>>)

\* An encoder without the assertion on the schema: C26 rejects it.
encode_v1_panics_Never(s) == FALSE

\* assert_eq!(self.schema, LinkSchema::V1) at the head of encode_v1: the call
\* panics for any other schema.
encode_v1_panics(s) == s.schema # "V1"


(***************************************************************************)
(* Callers of sandbox B: bounded inputs                                    *)
(***************************************************************************)

\* The most arguments in a state's or a link's args.
MaxArgs == 2

\* Sample texts of code: empty, ASCII, and one whose base64 holds both `-`
\* and `_` (Yc-_).
TioCodes == {<<>>, B("a"), <<97, 207, 191>>}
TioInputs == {<<>>, B("a")}
TioArgTexts == {<<>>, <<195, 169>>}
TioArgLists == UNION {[1..n -> TioArgTexts] : n \in 0..MaxArgs}

\* Language ids as the sandbox has them.
TioLanguageIds == {B("a"), B("05"), B("c-gcc")}

\* The language field is a free String: no language, ids, and texts that are
\* no id of the sandbox (an upper-case letter, a `#`).
TioLanguages == {<<>>, B("a"), B("05"), B("A"), B("a#b")}

TioStates ==
    {[schema |-> schema, domain |-> domain, language |-> language, code |-> code,
      input |-> input, args |-> list, debug |-> debug] :
        schema \in {"V1", "V2"}, domain \in {"Tio", "TioNexus", "TryItOnline"},
        language \in TioLanguages, code \in TioCodes, input \in TioInputs,
        list \in TioArgLists, debug \in BOOLEAN}

\* The head of a link in each documented form, up to and including the `#`
\* before the fields.
DocumentedHead(domain, language) ==
    IF domain = "Tio" THEN B("https://tio.run/#") \o language \o <<HASH>>
    ELSE IF domain = "TioNexus" THEN B("https://tio.run/nexus/") \o language \o <<HASH>>
    ELSE B("http://") \o language \o B(".tryitonline.net/#")

\* The links of the documented forms: a language id, then code, input,
\* optional args joined by `+`, optional debug=on, every value in unpadded
\* URL-safe base64.
DocumentedLinks ==
    {DocumentedHead(domain, language)
        \o B("code=") \o UrlSafeEncode(code) \o B("&input=") \o UrlSafeEncode(input)
        \o (IF list = <<>> THEN <<>>
            ELSE B("&args=") \o JoinWith([i \in 1..Len(list) |-> UrlSafeEncode(list[i])], PLUS))
        \o (IF debug THEN B("&debug=on") ELSE <<>>) :
        domain \in {"Tio", "TioNexus", "TryItOnline"}, language \in TioLanguageIds,
        code \in TioCodes, input \in TioInputs, list \in TioArgLists, debug \in BOOLEAN}

\* Other links a caller is given: no language, a language in the fragment of
\* a tryitonline.net link, fields missing or in another order, values in the
\* standard alphabet or in a mix of both, padding, a debug value other than
\* `on`, an upper-case host, a repeated or unknown field, two languages, a
\* foreign host, bytes that are no UTF-8, and text that is no URL.
OtherTioLinks ==
    {B("https://tio.run/"), B("https://tio.run/#"), B("https://tio.run/#a"),
     B("https://tio.run/#code=YQ&input="), B("https://tio.run/##code=YQ&input="),
     B("https://tio.run/nexus/a"), B("https://tio.run/nexus/#code=YQ"),
     B("https://tio.run/nexus/A#input=YQ&code="),
     B("http://tryitonline.net/#code=&input="), B("http://tryitonline.net/#A#code=&input="),
     B("http://tryitonline.net/#a#code=YQ&input=&debug=on"),
     B("https://tio.run/#a#input=YQ&code=Yc-_"), B("https://tio.run/#a#code=Yc+/&input="),
     B("https://tio.run/#a#code=Yc+_&input="), B("https://tio.run/#a#code=YQ==&input="),
     B("https://tio.run/#a#code=YQ&input=&args=Yc+/"),
     B("https://tio.run/#a#code=YQ&input=&debug=off"), B("https://TIO.RUN/#a#code=YQ&input="),
     B("http://A.tryitonline.net/#code=YQ&input="),
     B("https://tio.run/#a#code=YQ&code=YQ"), B("https://tio.run/#a#code=YQ&x=1"),
     B("https://tio.run/nexus/a#b#code=YQ"), B("http://b.tryitonline.net/#a#code=YQ"),
     B("https://example.com/#a#code=YQ"), B("https://tio.run/#a#code=ww&input="),
     B("https://tio.run/#a#code=Y&input="), B("tio.run/#a#code=YQ"),
     \* no fragment, or no code or input field
     B("http://a.tryitonline.net/"), B("http://a.tryitonline.net"),
     B("http://c-gcc.tryitonline.net/"), B("http://a.tryitonline.net/#input=YQ"),
     B("http://a.tryitonline.net/#debug=on"), B("http://a.tryitonline.net/#code"),
     \* a second `=` in a field
     B("https://tio.run/#a#code=YQ&input=a=b"), B("https://tio.run/#a#x=1=2"),
     B("https://tio.run/#a#code=YQ&code=a=b"), B("https://tio.run/#a#debug=o=n"),
     B("https://tio.run/#a#x=1&code=a=b"), B("https://tio.run/#a#code=Y&input=a=b"),
     B("https://tio.run/#a=b#code=YQ"), B("https://tio.run/#a#code=YQ&=a=b"),
     \* the debug field
     B("https://tio.run/#a#code=YQ&debug="), B("https://tio.run/#a#code=YQ&debug"),
     B("https://tio.run/#a#code=YQ&junk"), B("https://tio.run/#a#junk&code=YQ&x=1"),
     B("https://tio.run/#a#debug=on&debug=on"),
     \* both alphabets, in code, input and args
     B("https://tio.run/#a#code=Yc-/&input="), B("https://tio.run/#a#code=&input=Yc+/"),
     B("https://tio.run/#a#code=&input=Yc+_"), B("https://tio.run/#a#code=&input=&args=Yc_/"),
     B("https://tio.run/#a#code=&input=&args=Yc-/"),
     B("https://tio.run/#a#code=&input=&args=YXD/+Yc-_"),
     B("https://tio.run/#a#code=Yc.&input="), B("https://tio.run/#a#code=Yc+&input="),
     \* hosts and paths
     B("https://tio.run/nexus"), B("https://tio.run/nexus/"), B("https://tio.run/x/nexus/a"),
     B("https://tio.run/Nexus/a#code=YQ"), B("http://x.tio.run/#a#code=YQ"),
     B("http://atryitonline.net/#code=YQ"), B("http://tryitonline.net.example.com/"),
     B("http://a.b.tryitonline.net/#code=YQ"),
     B("http://127.0.0.1/#a#code=YQ"), B("http://127.0.0.1/#a#x=1=2"),
     B("https://example.com/#a#b#x=1=2"), B("https://example.com/nexus/a#code=Y")}

TioLinks == DocumentedLinks \cup OtherTioLinks

(***************************************************************************)
(* Callers of sandbox B: state machine                                     *)
(***************************************************************************)

InitTio ==
    /\ sandbox = "tio"
    /\ \/ pc = "state" /\ st \in TioStates /\ url = <<>>
       \/ pc = "link" /\ st = NoState /\ url \in TioLinks
    /\ dec = NoResult
    /\ url2 = <<>>
    /\ dec2 = NoResult
    /\ args = <<>>
    /\ parsed = NoParsed
    /\ registry = NoRegistry
    /\ typed = NoTyped
    /\ once = NoOnce
    /\ threads = NoThreads

\* state.encode_v1() on the caller's state: a link, or a panic.
TioEncode ==
    /\ sandbox = "tio" /\ pc = "state"
    /\ IF encode_v1_panics(st)
       THEN pc' = "aborted" /\ url' = url
       ELSE pc' = "link" /\ url' = encode_v1(st)
    /\ UNCHANGED <<once, threads, registry, typed, args, parsed, sandbox, st, dec, url2, dec2>>

\* LinkState::decode_v1(link).
TioDecode ==
    /\ sandbox = "tio" /\ pc = "link"
    /\ dec' = decode_v1(url)
    /\ pc' = "decoded"
    /\ UNCHANGED <<once, threads, registry, typed, args, parsed, sandbox, st, url, url2, dec2>>

\* state.encode_v1() on a decoded state, as tests::roundtrip_all does.
TioReencode ==
    /\ sandbox = "tio" /\ pc = "decoded" /\ dec.ok
    /\ IF encode_v1_panics(dec.state)
       THEN pc' = "aborted" /\ url2' = url2
       ELSE pc' = "reencoded" /\ url2' = encode_v1(dec.state)
    /\ UNCHANGED <<once, threads, registry, typed, args, parsed, sandbox, st, url, dec, dec2>>

\* LinkState::decode_v1 of the link encoded again.
TioDecodeAgain ==
    /\ sandbox = "tio" /\ pc = "reencoded"
    /\ dec2' = decode_v1(url2)
    /\ pc' = "done"
    /\ UNCHANGED <<once, threads, registry, typed, args, parsed, sandbox, st, url, dec, url2>>

NextTio == TioEncode \/ TioDecode \/ TioReencode \/ TioDecodeAgain

SpecTio == InitTio /\ [][NextTio]_vars

\* C2 as stated: a sandbox-B state of any schema, domain and language that
\* is encoded and decoded comes back Ok and equal in every field.
C2_RoundTripB ==
    (sandbox = "tio" /\ st # NoState /\ pc # "state")
    => /\ pc # "aborted"
       /\ pc \in {"decoded", "reencoded", "done"} => (dec.ok /\ dec.state = st)

\* C3: a sandbox-B link of a documented form, with a language id and fields
\* in canonical order and spelling, is accepted by decode_v1 and the decoded
\* state encodes to that same link.
C3_DocumentedRoundTrip ==
    (sandbox = "tio" /\ url \in DocumentedLinks /\ pc # "link")
    => /\ pc # "aborted"
       /\ dec.ok /\ ~encode_v1_panics(dec.state)
       /\ pc \in {"reencoded", "done"} => url2 = url

\* C3's case: a documented link with two args and debug=on was decoded and
\* encoded again to itself.
C3_Witness ==
    /\ sandbox = "tio" /\ pc = "reencoded" /\ url \in DocumentedLinks
    /\ dec.ok /\ Len(dec.state.args) = 2 /\ dec.state.debug
    /\ dec.state.domain = "TryItOnline" /\ url2 = url

\* C4 as stated: for a link that decode accepts, in either sandbox, the
\* decoded state can be encoded and the link so obtained decodes to the same
\* state.
C4_Stable ==
    /\ (pc = "decoded" /\ dec.ok /\ sandbox = "tio") => ~encode_v1_panics(dec.state)
    /\ pc = "done" => (dec2.ok /\ dec2.state = dec.state)


(***************************************************************************)
(* JSON (serde_json), as parse_arg_list uses it                            *)
(*                                                                         *)
(* A value is [t, s]: t is "string", "number", "bool", "null", "array" or  *)
(* "object"; s is the contents of a string, the text of a number or        *)
(* literal, and the compact rendering of an array or object.  Numbers are  *)
(* modelled as integers without fraction or exponent, and strings without  *)
(* \u escapes: the parser reports anything else as "Unmodelled", and       *)
(* OnlyModelledJson states that no input of the model reaches it.          *)
(***************************************************************************)

QUOTE == Ord("\"")
COMMA == Ord(",")
LBRACE == Ord("{")
RBRACE == Ord("}")
FULL_STOP == Ord(".")
JSON_TRUE == B("true")
JSON_FALSE == B("false")
JSON_NULL == B("null")

IsJsonSpace(b) == b \in {32, 9, 10, 13}

\* The first place from i on that holds no whitespace (Len(s) + 1 if none).
RECURSIVE SkipWs(_, _)
SkipWs(s, i) == IF i <= Len(s) /\ IsJsonSpace(s[i]) THEN SkipWs(s, i + 1) ELSE i

JsonFail(why) == [ok |-> FALSE, t |-> "", s |-> <<>>, next |-> 0, why |-> why]
JsonOk(t, s, next) == [ok |-> TRUE, t |-> t, s |-> s, next |-> next, why |-> ""]

\* The byte an escape letter stands for, or -1.
Unescape(b) ==
    IF b \in {QUOTE, BACKSLASH, SLASH} THEN b
    ELSE IF b = Ord("n") THEN 10
    ELSE IF b = Ord("t") THEN 9
    ELSE IF b = Ord("r") THEN 13
    ELSE IF b = Ord("b") THEN 8
    ELSE IF b = Ord("f") THEN 12
    ELSE -1

\* The contents of a string from place k (past the opening quote) on.
RECURSIVE JsonStringFrom(_, _, _)
JsonStringFrom(s, k, acc) ==
    IF k > Len(s) THEN JsonFail("EofWhileParsingString")
    ELSE IF s[k] = QUOTE
    THEN IF IsUtf8(acc) THEN JsonOk("string", acc, k + 1)
         ELSE JsonFail("InvalidUnicodeCodePoint")
    ELSE IF s[k] = BACKSLASH
    THEN IF k + 1 > Len(s) THEN JsonFail("EofWhileParsingString")
         ELSE IF s[k + 1] = Ord("u") THEN JsonFail("Unmodelled")
         ELSE IF Unescape(s[k + 1]) < 0 THEN JsonFail("InvalidEscape")
         ELSE JsonStringFrom(s, k + 2, acc \o <<Unescape(s[k + 1])>>)
    ELSE IF s[k] < 32 THEN JsonFail("ControlCharacterWhileParsingString")
    ELSE JsonStringFrom(s, k + 1, acc \o <<s[k]>>)

RECURSIVE DigitsEnd(_, _)
DigitsEnd(s, i) == IF i <= Len(s) /\ IsDigit(s[i]) THEN DigitsEnd(s, i + 1) ELSE i

\* A number at place i: an optional `-`, then 0 or a digit other than 0 and
\* more digits.
JsonNumber(s, i) ==
    LET Digits(d, e) ==
            IF e = d THEN JsonFail("InvalidNumber")
            ELSE IF s[d] = Ord("0") /\ e <= Len(s) /\ IsDigit(s[e])
            THEN JsonFail("InvalidNumber")
            ELSE IF e <= Len(s) /\ s[e] \in {FULL_STOP, Ord("e"), Ord("E")}
            THEN JsonFail("Unmodelled")
            ELSE IF e - d > 18 \/ (s[i] = MINUS /\ s[d] = Ord("0"))
            THEN JsonFail("Unmodelled")
            ELSE JsonOk("number", SubSeq(s, i, e - 1), e)
        From(d) ==
            Digits(d, IF d <= Len(s) /\ s[d] = Ord("0") THEN d + 1 ELSE DigitsEnd(s, d))
    IN  From(IF s[i] = MINUS THEN i + 1 ELSE i)

\* Display for Value of a string: quoted, with `"`, `\` and control
\* characters escaped.
RECURSIVE JsonEscape(_)
JsonEscape(t) ==
    IF t = <<>> THEN <<>>
    ELSE LET b == Head(t)
             Hex(n) == IF n < 10 THEN 48 + n ELSE 87 + n
         IN  (IF b \in {QUOTE, BACKSLASH} THEN <<BACKSLASH, b>>
              ELSE IF b = 10 THEN <<BACKSLASH, Ord("n")>>
              ELSE IF b = 9 THEN <<BACKSLASH, Ord("t")>>
              ELSE IF b = 13 THEN <<BACKSLASH, Ord("r")>>
              ELSE IF b = 8 THEN <<BACKSLASH, Ord("b")>>
              ELSE IF b = 12 THEN <<BACKSLASH, Ord("f")>>
              ELSE IF b < 32 THEN B("\\u00") \o <<Hex(b \div 16), Hex(b % 16)>>
              ELSE <<b>>) \o JsonEscape(Tail(t))

JsonQuote(t) == <<QUOTE>> \o JsonEscape(t) \o <<QUOTE>>

\* Value::to_string (Display for Value): the compact JSON text of the value,
\* so a string is rendered with its quotes.
Value_to_string(v) == IF v.t = "string" THEN JsonQuote(v.s) ELSE v.s

JsonListFail(why) == [ok |-> FALSE, items |-> <<>>, next |-> 0, why |-> why]

RECURSIVE JsonValue(_, _)
RECURSIVE JsonElements(_, _, _)
RECURSIVE JsonMembers(_, _, _)

\* The elements of an array from place i on, past `[` (first) or past a `,`.
JsonElements(s, i, first) ==
    LET More(item, rest) ==
            IF rest.ok
            THEN [ok |-> TRUE, items |-> <<item>> \o rest.items, next |-> rest.next,
                  why |-> ""]
            ELSE rest
        After(item, k) ==
            IF k > Len(s) THEN JsonListFail("EofWhileParsingList")
            ELSE IF s[k] = COMMA THEN More(item, JsonElements(s, k + 1, FALSE))
            ELSE IF s[k] = RBRACKET
            THEN [ok |-> TRUE, items |-> <<item>>, next |-> k + 1, why |-> ""]
            ELSE JsonListFail("ExpectedListCommaOrEnd")
        Element(v) ==
            IF ~v.ok THEN JsonListFail(v.why)
            ELSE After([t |-> v.t, s |-> v.s], SkipWs(s, v.next))
        At(j) ==
            IF j > Len(s) THEN JsonListFail("EofWhileParsingList")
            ELSE IF first /\ s[j] = RBRACKET
            THEN [ok |-> TRUE, items |-> <<>>, next |-> j + 1, why |-> ""]
            ELSE Element(JsonValue(s, j))
    IN  At(SkipWs(s, i))

\* The members of an object from place i on, each rendered as "key":value.
JsonMembers(s, i, first) ==
    LET More(item, rest) ==
            IF rest.ok
            THEN [ok |-> TRUE, items |-> <<item>> \o rest.items, next |-> rest.next,
                  why |-> ""]
            ELSE rest
        After(item, k) ==
            IF k > Len(s) THEN JsonListFail("EofWhileParsingObject")
            ELSE IF s[k] = COMMA THEN More(item, JsonMembers(s, k + 1, FALSE))
            ELSE IF s[k] = RBRACE
            THEN [ok |-> TRUE, items |-> <<item>>, next |-> k + 1, why |-> ""]
            ELSE JsonListFail("ExpectedObjectCommaOrEnd")
        Member(key, v) ==
            IF ~v.ok THEN JsonListFail(v.why)
            ELSE After(JsonQuote(key.s) \o <<COLON>> \o Value_to_string(v),
                       SkipWs(s, v.next))
        Colon(key, c) ==
            IF c > Len(s) THEN JsonListFail("EofWhileParsingObject")
            ELSE IF s[c] # COLON THEN JsonListFail("ExpectedColon")
            ELSE Member(key, JsonValue(s, c + 1))
        Key(key) ==
            IF ~key.ok THEN JsonListFail(key.why)
            ELSE Colon(key, SkipWs(s, key.next))
        At(j) ==
            IF j > Len(s) THEN JsonListFail("EofWhileParsingObject")
            ELSE IF first /\ s[j] = RBRACE
            THEN [ok |-> TRUE, items |-> <<>>, next |-> j + 1, why |-> ""]
            ELSE IF s[j] # QUOTE THEN JsonListFail("KeyMustBeAString")
            ELSE Key(JsonStringFrom(s, j + 1, <<>>))
    IN  At(SkipWs(s, i))

\* The value that starts at the first place from i on that is no whitespace.
JsonValue(s, i) ==
    LET Array(arr) ==
            IF ~arr.ok THEN JsonFail(arr.why)
            ELSE JsonOk("array",
                        <<LBRACKET>>
                           \o JoinWith([n \in 1..Len(arr.items) |->
                                            Value_to_string(arr.items[n])], COMMA)
                           \o <<RBRACKET>>,
                        arr.next)
        Object(obj) ==
            IF ~obj.ok THEN JsonFail(obj.why)
            ELSE JsonOk("object",
                        <<LBRACE>> \o JoinWith(obj.items, COMMA) \o <<RBRACE>>, obj.next)
        At(j, rest) ==
            IF j > Len(s) THEN JsonFail("EofWhileParsingValue")
            ELSE IF s[j] = QUOTE THEN JsonStringFrom(s, j + 1, <<>>)
            ELSE IF s[j] = MINUS \/ IsDigit(s[j]) THEN JsonNumber(s, j)
            ELSE IF StartsWith(rest, JSON_TRUE) THEN JsonOk("bool", JSON_TRUE, j + 4)
            ELSE IF StartsWith(rest, JSON_FALSE) THEN JsonOk("bool", JSON_FALSE, j + 5)
            ELSE IF StartsWith(rest, JSON_NULL) THEN JsonOk("null", JSON_NULL, j + 4)
            ELSE IF s[j] = LBRACKET THEN Array(JsonElements(s, j + 1, TRUE))
            ELSE IF s[j] = LBRACE THEN Object(JsonMembers(s, j + 1, TRUE))
            ELSE JsonFail("ExpectedSomeValue")
        Start(j) == At(j, SubSeq(s, j, Len(s)))
    IN  Start(SkipWs(s, i))

\* serde_json::from_reader::<Vec<Value>>: the text must be one array, with
\* nothing but whitespace around it.
JsonArrayOfValues(text) ==
    LET Whole(r) ==
            IF ~r.ok THEN r
            ELSE IF SkipWs(text, r.next) <= Len(text)
            THEN JsonListFail("TrailingCharacters")
            ELSE r
        Other(v) ==
            IF v.ok THEN JsonListFail("InvalidType") ELSE JsonListFail(v.why)
        At(j) ==
            IF j > Len(text) THEN JsonListFail("EofWhileParsingValue")
            ELSE IF text[j] # LBRACKET THEN Other(JsonValue(text, j))
            ELSE Whole(JsonElements(text, j + 1, TRUE))
    IN  At(SkipWs(text, 1))

(***************************************************************************)
(* Sandbox A: the typed stage (src/src/ato/state.rs)                       *)
(***************************************************************************)

ParsedOk(list) == [ok |-> TRUE, val |-> list, err |-> NoErr]
ParsedFail(e) == [ok |-> FALSE, val |-> <<>>, err |-> e]

\* A loop that passes over an object or array element instead of returning:
\* a wrong reading of the match in parse_arg_list that C11 rejects.
RECURSIVE ArgStringsSkipObjects(_, _, _)
ArgStringsSkipObjects(values, i, list) ==
    IF i > Len(values) THEN ParsedOk(list)
    ELSE IF values[i].t \in {"object", "array"}
    THEN ArgStringsSkipObjects(values, i + 1, list)
    ELSE ArgStringsSkipObjects(values, i + 1, list \o <<Value_to_string(values[i])>>)

\* The loop of parse_arg_list: the first object or array is ObjectArg with
\* the value, any other value is pushed as v.to_string().
RECURSIVE ArgStrings(_, _, _)
ArgStrings(values, i, list) ==
    IF i > Len(values) THEN ParsedOk(list)
    ELSE IF values[i].t \in {"object", "array"}
    THEN ParsedFail(ErrText("ObjectArg", Value_to_string(values[i])))
    ELSE ArgStrings(values, i + 1, list \o <<Value_to_string(values[i])>>)

\* parse_arg_list.
parse_arg_list(text) ==
    LET Typed(values) ==
            IF ~values.ok THEN ParsedFail(Wrap("InvalidJson", Err(values.why)))
            ELSE ArgStrings(values.items, 1, <<>>)
    IN  IF text = <<>> THEN ParsedOk(<<>>)
        ELSE Typed(JsonArrayOfValues(text))


(***************************************************************************)
(* Callers of the typed stage: bounded inputs and state machine            *)
(***************************************************************************)

\* The most elements in an argument list built from ArgElements.
MaxElements == 2

\* Sample elements: the two strings of the documented example, a string with
\* an escape, a number, a literal of each kind, an object and an array.
ArgElements ==
    {B("\"--\""), B("\"-6\""), B("\"a\\\"b\""), B("1"), B("true"), B("null"),
     B("{}"), B("[1]")}

COMMA_SPACE == B(", ")

RECURSIVE JoinTexts(_, _)
JoinTexts(ss, sep) ==
    IF ss = <<>> THEN <<>>
    ELSE IF Len(ss) = 1 THEN ss[1]
    ELSE ss[1] \o sep \o JoinTexts(Tail(ss), sep)

\* The options and program-arguments strings a link holds: the empty string,
\* the lists of up to MaxElements sample elements as the front end writes
\* them, and texts that are not such a list.
ArgTexts ==
    {<<LBRACKET>> \o JoinTexts(es, COMMA_SPACE) \o <<RBRACKET>> :
        es \in UNION {[1..n -> ArgElements] : n \in 0..MaxElements}}
    \cup {<<>>, B("[ ]"), B(" [\"--\",\"-6\"] "), B("\"--\""), B("--"), B("-6"),
          B("[1,]"), B("[1] x"), B("[\"a"), B("[01]"), B("{\"a\": 1}"),
          B("[{\"a\": [1, \"x\"]}, 1]"), B("[1, [\"x\", {}]"), B("[-6, 10]"),
          B("[1, {}, [1]]"), B("[{\"a\":1}]"), B(" "), B("[]x"), B("{}")}

InitArgs ==
    /\ sandbox = "args" /\ pc = "args"
    /\ args \in ArgTexts
    /\ parsed = NoParsed
    /\ registry = NoRegistry
    /\ typed = NoTyped
    /\ once = NoOnce
    /\ threads = NoThreads
    /\ st = NoState /\ url = <<>> /\ dec = NoResult /\ url2 = <<>> /\ dec2 = NoResult

\* parse_arg_list(args), as LinkState::parse calls it on options and on
\* program_arguments.
ParseArgList ==
    /\ sandbox = "args" /\ pc = "args"
    /\ parsed' = parse_arg_list(args)
    /\ pc' = "parsed"
    /\ UNCHANGED <<once, threads, registry, typed, sandbox, st, url, dec, url2, dec2, args>>

NextArgs == ParseArgList

SpecArgs == InitArgs /\ [][NextArgs]_vars

\* The string form of a scalar as the specification has it: the contents of
\* a string, the text of a number or literal.
StringForm(v) == v.s

\* C10 as stated: the list ["--", "-6"] resolves to the strings -- and -6,
\* and a JSON array of n scalars resolves to the n string forms of its
\* elements, in order.
C10_StringForms ==
    (sandbox = "args" /\ pc = "parsed")
    => /\ args = B("[\"--\", \"-6\"]") =>
            (parsed.ok /\ parsed.val = <<B("--"), B("-6")>>)
       /\ LET values == JsonArrayOfValues(args)
          IN  (args # <<>> /\ values.ok
                 /\ \A i \in 1..Len(values.items) : values.items[i].t \notin {"object", "array"})
              => /\ parsed.ok /\ Len(parsed.val) = Len(values.items)
                 /\ \A i \in 1..Len(values.items) : parsed.val[i] = StringForm(values.items[i])

(***************************************************************************)
(* The limits of the library models                                        *)
(***************************************************************************)

\* No link of the model holds a DEFLATE block other than a stored one.
OnlyStoredBlocks ==
    /\ dec.err.cause # "Unmodelled"
    /\ dec2.err.cause # "Unmodelled"

\* No argument list of the model holds JSON outside the modelled part.
OnlyModelledJson == parsed.err.cause # "Unmodelled"

\* The elements of args that are objects or arrays, by their place, when
\* args is a JSON array.
NonScalarPlaces(values) ==
    {i \in 1..Len(values.items) : values.items[i].t \in {"object", "array"}}

\* C11: the empty string and `[]` resolve to the empty list; a non-empty
\* string that is no JSON array is rejected as invalid JSON; a JSON array
\* with an object or array among its elements is rejected with ObjectArg
\* carrying the first of them, and the result holds no list.
C11_ArgListValidation ==
    (sandbox = "args" /\ pc = "parsed")
    => LET values == JsonArrayOfValues(args)
       IN  /\ args \in {<<>>, B("[]")} => parsed = ParsedOk(<<>>)
           /\ (args # <<>> /\ ~values.ok)
                => (~parsed.ok /\ parsed.err.kind = "InvalidJson" /\ parsed.val = <<>>)
           /\ (args # <<>> /\ values.ok /\ NonScalarPlaces(values) # {})
                => /\ ~parsed.ok /\ parsed.err.kind = "ObjectArg" /\ parsed.val = <<>>
                   /\ parsed.err.text =
                        Value_to_string(values.items[Min(NonScalarPlaces(values))])
           /\ parsed.ok => (args = <<>> \/ (values.ok /\ NonScalarPlaces(values) = {}))

\* C11's case: a list whose second and third elements are an object and an
\* array was rejected with the object, after a scalar was read.
C11_Witness ==
    /\ sandbox = "args" /\ pc = "parsed"
    /\ args = B("[1, {}, [1]]")
    /\ ~parsed.ok /\ parsed.err.kind = "ObjectArg" /\ parsed.err.text = B("{}")
    /\ parsed.val = <<>>

(***************************************************************************)
(* Sandbox A: typed resolution (src/src/ato/state.rs, src/src/ato/api.rs)  *)
(***************************************************************************)

ENC_UTF8 == B("utf-8")
ENC_SBCS == B("sbcs")
ENC_BASE64 == B("base64")

EncodingOk(e) == [ok |-> TRUE, val |-> e, err |-> NoErr]
EncodingFail(e) == [ok |-> FALSE, val |-> "none", err |-> e]

\* A match that takes the empty string for no encoding at all: a wrong
\* reading of the arm `"utf-8" | ""` that C12 rejects.
Encoding_try_from_NoDefault(enc) ==
    IF enc = ENC_UTF8 THEN EncodingOk("Utf8")
    ELSE IF enc = ENC_SBCS THEN EncodingOk("Sbcs")
    ELSE IF enc = ENC_BASE64 THEN EncodingOk("Base64")
    ELSE EncodingFail(ErrText("InvalidEncoding", enc))

\* A match whose `sbcs` arm gives Base64: a slip that C13 rejects.
Encoding_try_from_SbcsAsBase64(enc) ==
    IF enc = ENC_UTF8 \/ enc = <<>> THEN EncodingOk("Utf8")
    ELSE IF enc = ENC_SBCS THEN EncodingOk("Base64")
    ELSE IF enc = ENC_BASE64 THEN EncodingOk("Base64")
    ELSE EncodingFail(ErrText("InvalidEncoding", enc))

\* impl TryFrom<String> for Encoding: a match on the whole string.
Encoding_try_from(enc) ==
    IF enc = ENC_UTF8 \/ enc = <<>> THEN EncodingOk("Utf8")
    ELSE IF enc = ENC_SBCS THEN EncodingOk("Sbcs")
    ELSE IF enc = ENC_BASE64 THEN EncodingOk("Base64")
    ELSE EncodingFail(ErrText("InvalidEncoding", enc))

\* get_languages: LANGUAGES is fetched at its first use and kept; the fetch
\* is unwrapped, so a registry that cannot be had is a panic.
get_languages_panics(reg) == ~reg.fetched /\ ~reg.available

\* get_language(name) on a registry that can be had: the entry under the
\* name, if there is one, and the registry after the call.
get_language(name, reg) ==
    [found |-> IF name \in reg.ids THEN Some(name) ELSE None,
     registry |-> [reg EXCEPT !.fetched = TRUE, !.lookups = Append(@, name)]]

\* The fields of LinkState that name an encoding, in the order parse reads
\* them.
EncodingFields ==
    <<"header_encoding", "code_encoding", "footer_encoding", "input_encoding">>

TypedFail(e, reg) ==
    [panic |-> FALSE, ok |-> FALSE, state |-> NoState, err |-> e, registry |-> reg]

\* A parse that asks the registry for every language id, the empty one
\* too: a wrong reading of `if !self.language.is_empty()` that C14 rejects.
LinkState_parse_AlwaysLooksUp(s, reg) ==
    LET Fields(language, r, lists, encs) ==
            IF ~lists.options.ok THEN TypedFail(lists.options.err, r)
            ELSE IF ~encs.header_encoding.ok THEN TypedFail(encs.header_encoding.err, r)
            ELSE IF ~encs.code_encoding.ok THEN TypedFail(encs.code_encoding.err, r)
            ELSE IF ~encs.footer_encoding.ok THEN TypedFail(encs.footer_encoding.err, r)
            ELSE IF ~lists.program_arguments.ok
            THEN TypedFail(lists.program_arguments.err, r)
            ELSE IF ~encs.input_encoding.ok THEN TypedFail(encs.input_encoding.err, r)
            ELSE [panic |-> FALSE, ok |-> TRUE, err |-> NoErr, registry |-> r,
                  state |-> [language |-> language,
                             options |-> lists.options.val,
                             header |-> s.header,
                             header_encoding |-> encs.header_encoding.val,
                             code |-> s.code,
                             code_encoding |-> encs.code_encoding.val,
                             footer |-> s.footer,
                             footer_encoding |-> encs.footer_encoding.val,
                             program_arguments |-> lists.program_arguments.val,
                             input |-> s.input,
                             input_encoding |-> encs.input_encoding.val]]
        Resolved(language, r) ==
            Fields(language, r,
                   [f \in {"options", "program_arguments"} |-> parse_arg_list(s[f])],
                   [f \in {"header_encoding", "code_encoding", "footer_encoding",
                           "input_encoding"} |-> Encoding_try_from(s[f])])
        Looked(l) ==
            IF ~l.found.some THEN TypedFail(ErrText("InvalidLanguage", s.language), l.registry)
            ELSE Resolved(l.found, l.registry)
    IN  IF get_languages_panics(reg)
        THEN [panic |-> TRUE, ok |-> FALSE, state |-> NoState, err |-> NoErr,
              registry |-> reg]
        ELSE Looked(get_language(s.language, reg))

\* LinkState::parse with the registry it reads.  The fields of the State are
\* evaluated in the order they are written, and the first `?` that meets an
\* Err returns it.  `panic` is the unwrap of a registry that cannot be had.
LinkState_parse(s, reg) ==
    LET Fields(language, r, lists, encs) ==
            IF ~lists.options.ok THEN TypedFail(lists.options.err, r)
            ELSE IF ~encs.header_encoding.ok THEN TypedFail(encs.header_encoding.err, r)
            ELSE IF ~encs.code_encoding.ok THEN TypedFail(encs.code_encoding.err, r)
            ELSE IF ~encs.footer_encoding.ok THEN TypedFail(encs.footer_encoding.err, r)
            ELSE IF ~lists.program_arguments.ok
            THEN TypedFail(lists.program_arguments.err, r)
            ELSE IF ~encs.input_encoding.ok THEN TypedFail(encs.input_encoding.err, r)
            ELSE [panic |-> FALSE, ok |-> TRUE, err |-> NoErr, registry |-> r,
                  state |-> [language |-> language,
                             options |-> lists.options.val,
                             header |-> s.header,
                             header_encoding |-> encs.header_encoding.val,
                             code |-> s.code,
                             code_encoding |-> encs.code_encoding.val,
                             footer |-> s.footer,
                             footer_encoding |-> encs.footer_encoding.val,
                             program_arguments |-> lists.program_arguments.val,
                             input |-> s.input,
                             input_encoding |-> encs.input_encoding.val]]
        Resolved(language, r) ==
            Fields(language, r,
                   [f \in {"options", "program_arguments"} |-> parse_arg_list(s[f])],
                   [f \in {"header_encoding", "code_encoding", "footer_encoding",
                           "input_encoding"} |-> Encoding_try_from(s[f])])
        Looked(l) ==
            IF ~l.found.some THEN TypedFail(ErrText("InvalidLanguage", s.language), l.registry)
            ELSE Resolved(l.found, l.registry)
    IN  IF s.language = <<>> THEN Resolved(None, reg)
        ELSE IF get_languages_panics(reg)
        THEN [panic |-> TRUE, ok |-> FALSE, state |-> NoState, err |-> NoErr,
              registry |-> reg]
        ELSE Looked(get_language(s.language, reg))

(***************************************************************************)
(* Callers of the typed stage: a raw state, or the state decoded from a    *)
(* link, is resolved against a registry.                                   *)
(***************************************************************************)

\* The most encoding fields of a raw state that hold a tag other than "".
MaxTags == 2

\* Sample tags: the three names, and names the match does not have (another
\* encoding, another case).
EncodingTags == {ENC_UTF8, ENC_SBCS, ENC_BASE64, B("latin-1"), B("UTF-8")}

\* Sample language ids: none, one the sample registry has, one it has not.
TypedLanguages == {<<>>, B("a"), B("zz")}

\* Sample options and program arguments: none, a list, a list with an
\* object, text that is no JSON.
TypedOptions == {<<>>, B("[\"-e\"]"), B("[{}]")}
TypedArguments == {<<>>, B("[1")}

\* The raw states a caller resolves.
TypedStates ==
    LET Few == {F \in SUBSET {"header_encoding", "code_encoding", "footer_encoding",
                              "input_encoding"} : Cardinality(F) <= MaxTags}
        Tagged == UNION {[F -> EncodingTags] : F \in Few}
    IN  {[n \in StringFields \cup {"schema"} |->
            CASE n = "schema" -> "V1"
              [] n = "language" -> language
              [] n = "options" -> options
              [] n = "program_arguments" -> arguments
              [] n = "code" -> B("a")
              [] n \in DOMAIN tags -> tags[n]
              [] OTHER -> <<>>] :
         language \in TypedLanguages, options \in TypedOptions,
         arguments \in TypedArguments, tags \in Tagged}

\* The links a caller decodes and then resolves: links of raw states, a link
\* with only a language key, and links decode rejects.
TypedLinks ==
    {encode_url("V1", serialize_mp(s), "best") : s \in
        {[LinkStateDefault EXCEPT !.language = B("a"), !.code_encoding = ENC_SBCS],
         [LinkStateDefault EXCEPT !.language = B("zz")],
         [LinkStateDefault EXCEPT !.input_encoding = B("latin-1")],
         [LinkStateDefault EXCEPT !.options = B("[{}]")]}}
    \cup {RUN_URL, RUN_URL \o B("?L=a"), RUN_URL \o B("?L=zz"), RUN_URL \o B("?x=1"),
          RUN_URL \o B("?1=AA")}

\* The registry as the process finds it: one that holds the language `a`, an
\* empty one, and one that cannot be fetched.
Registries ==
    {[available |-> TRUE, ids |-> {B("a")}, fetched |-> FALSE, lookups |-> <<>>],
     [available |-> TRUE, ids |-> {}, fetched |-> FALSE, lookups |-> <<>>],
     [available |-> FALSE, ids |-> {}, fetched |-> FALSE, lookups |-> <<>>]}

InitTyped ==
    /\ sandbox = "typed"
    /\ \/ pc = "raw" /\ st \in TypedStates /\ url = <<>>
       \/ pc = "link" /\ st = NoState /\ url \in TypedLinks
    /\ registry \in Registries
    /\ dec = NoResult
    /\ url2 = <<>>
    /\ dec2 = NoResult
    /\ args = <<>>
    /\ parsed = NoParsed
    /\ typed = NoTyped
    /\ once = NoOnce
    /\ threads = NoThreads

\* LinkState::decode(link): the raw state the typed stage is given.
TypedDecode ==
    /\ sandbox = "typed" /\ pc = "link"
    /\ \E d \in {decode(url)} :
        /\ dec' = d
        /\ pc' = IF d.ok THEN "raw" ELSE "rejected"
        /\ st' = IF d.ok THEN d.state ELSE st
    /\ UNCHANGED <<once, threads, registry, typed, args, parsed, sandbox, url, url2, dec2>>

\* state.parse(): the typed state, an error, or the panic of get_languages.
TypedParse ==
    /\ sandbox = "typed" /\ pc = "raw"
    /\ \E r \in {LinkState_parse(st, registry)} :
        /\ typed' = [ok |-> r.ok, state |-> r.state, err |-> r.err]
        /\ registry' = r.registry
        /\ pc' = IF r.panic THEN "aborted" ELSE "resolved"
    /\ UNCHANGED <<once, threads, args, parsed, sandbox, st, url, dec, url2, dec2>>

NextTyped == TypedDecode \/ TypedParse

SpecTyped == InitTyped /\ [][NextTyped]_vars

\* The Encoding an accepted tag names, as C12 lists them.
ExpectedEncoding(tag) ==
    CASE tag = B("utf-8") -> "Utf8"
      [] tag = <<>> -> "Utf8"
      [] tag = B("sbcs") -> "Sbcs"
      [] tag = B("base64") -> "Base64"
      [] OTHER -> "rejected"

FieldsOf(fields) == {fields[i] : i \in 1..Len(fields)}

\* Nothing but the encoding tags can stop the resolution of st.
OnlyTagsCanFail ==
    /\ st.language = <<>> \/ st.language \in registry.ids
    /\ parse_arg_list(st.options).ok
    /\ parse_arg_list(st.program_arguments).ok

\* C12: a tag resolves by exact match, `utf-8` and the empty string to Utf8,
\* `sbcs` to Sbcs, `base64` to Base64; any other string, also one that
\* differs in case only, is rejected with InvalidEncoding carrying it; and
\* the header, code, footer and input tags are resolved alike.
C12_ExactTags ==
    (sandbox = "typed" /\ pc = "resolved")
    => /\ typed.ok =>
            \A f \in FieldsOf(EncodingFields) :
                /\ ExpectedEncoding(st[f]) # "rejected"
                /\ typed.state[f] = ExpectedEncoding(st[f])
       /\ (\E f \in FieldsOf(EncodingFields) : ExpectedEncoding(st[f]) = "rejected")
            => ~typed.ok
       /\ typed.err.kind = "InvalidEncoding" =>
            \E f \in FieldsOf(EncodingFields) :
                ExpectedEncoding(st[f]) = "rejected" /\ typed.err.text = st[f]
       /\ \A f \in FieldsOf(EncodingFields) :
            (/\ OnlyTagsCanFail
             /\ ExpectedEncoding(st[f]) = "rejected"
             /\ \A g \in FieldsOf(EncodingFields) \ {f} :
                    ExpectedEncoding(st[g]) # "rejected")
            => (~typed.ok /\ typed.err = ErrText("InvalidEncoding", st[f])
                  /\ typed.state = NoState)

\* C12's case: a state with the header tag `utf-8` and the input tag `UTF-8`
\* was rejected with InvalidEncoding carrying `UTF-8`.
C12_Witness ==
    /\ sandbox = "typed" /\ pc = "resolved"
    /\ st.header_encoding = B("utf-8") /\ st.input_encoding = B("UTF-8")
    /\ ~typed.ok /\ typed.err = ErrText("InvalidEncoding", B("UTF-8"))

\* C13 as stated: two encoding fields of a resolved state that hold
\* different tags hold different Encoding values.
C13_Injective ==
    (sandbox = "typed" /\ pc = "resolved" /\ typed.ok)
    => \A f, g \in FieldsOf(EncodingFields) :
            st[f] # st[g] => typed.state[f] # typed.state[g]

\* C13, amended: two different accepted tags resolve to the same Encoding
\* only when they are the empty string and `utf-8`, which both give Utf8; the
\* three names resolve to three different values.
C13_InjectiveOnNames ==
    (sandbox = "typed" /\ pc = "resolved" /\ typed.ok)
    => \A f, g \in FieldsOf(EncodingFields) :
            (st[f] # st[g] /\ typed.state[f] = typed.state[g])
                => ({st[f], st[g]} = {<<>>, B("utf-8")} /\ typed.state[f] = "Utf8")

\* C13's case: a state with the tags `sbcs` and `base64` was resolved to two
\* different Encoding values.
C13_Witness ==
    /\ sandbox = "typed" /\ pc = "resolved" /\ typed.ok
    /\ st.code_encoding = B("sbcs") /\ st.input_encoding = B("base64")
    /\ typed.state.code_encoding # typed.state.input_encoding

\* C14: LinkState::decode makes no lookup and needs no registry: after it
\* the registry is untouched, fetched or not, whatever it holds and also
\* when it cannot be had.  LinkState::parse makes one lookup, of the language
\* id, exactly when the id is not empty; with an empty id it makes none and
\* the language is None; a lookup that finds nothing is InvalidLanguage
\* carrying the id, and one that finds the language gives it.
C14_LookupInTypedStageOnly ==
    sandbox = "typed"
    => /\ (url # <<>> /\ pc \in {"raw", "rejected"})
            => (registry.lookups = <<>> /\ ~registry.fetched
                  /\ (pc = "raw") = dec.ok)
       /\ (pc \in {"resolved", "aborted"} /\ st.language = <<>>)
            => /\ pc = "resolved"
               /\ registry.lookups = <<>> /\ ~registry.fetched
               /\ typed.ok => typed.state.language = None
       /\ (pc = "resolved" /\ st.language # <<>>)
            => /\ registry.lookups = <<st.language>>
               /\ st.language \notin registry.ids
                    => (~typed.ok /\ typed.err = ErrText("InvalidLanguage", st.language)
                          /\ typed.state = NoState)
               /\ st.language \in registry.ids
                    => (typed.err.kind # "InvalidLanguage"
                          /\ (typed.ok => typed.state.language = Some(st.language)))

\* Decoding leaves the registry as it is.
C14_DecodeLeavesRegistry ==
    [][(sandbox = "typed" /\ pc = "link") => registry' = registry]_vars

\* C14's case: a link was decoded although the registry cannot be had; and a
\* decoded state whose language the registry does not hold was resolved to
\* InvalidLanguage after one lookup.
C14_Witness ==
    /\ sandbox = "typed" /\ pc = "resolved" /\ url # <<>> /\ dec.ok
    /\ st.language = B("zz") /\ registry.available
    /\ registry.lookups = <<B("zz")>>
    /\ ~typed.ok /\ typed.err = ErrText("InvalidLanguage", B("zz"))

\* A link is decoded whether or not the registry can be had.
C14_DecodedWithoutRegistry ==
    /\ sandbox = "typed" /\ pc = "raw" /\ url # <<>> /\ dec.ok
    /\ ~registry.available /\ st.language # <<>>

\* The state of a sandbox-B link that names a language and nothing else.
LanguageOnlyState(domain, language) ==
    [schema |-> "V1", domain |-> domain, language |-> language, code |-> <<>>,
     input |-> <<>>, args |-> <<>>, debug |-> FALSE]

\* C15: a link http://<lang>.tryitonline.net/ without fragment decodes, with
\* no error, to domain TryItOnline, language <lang>, empty code, input and
\* args, and debug false.
C15_LanguageOnlyLink ==
    (sandbox = "tio" /\ pc = "decoded")
    => \A lang \in TioLanguageIds :
         url \in {B("http://") \o lang \o B(".tryitonline.net/"),
                  B("http://") \o lang \o B(".tryitonline.net")}
            => (dec.ok /\ dec.err = NoErr
                  /\ dec.state = LanguageOnlyState("TryItOnline", lang))

\* C15's case: http://c-gcc.tryitonline.net/ was decoded to the language
\* c-gcc and nothing else.
C15_Witness ==
    /\ sandbox = "tio" /\ pc = "decoded"
    /\ url = B("http://c-gcc.tryitonline.net/")
    /\ dec.ok /\ dec.state = LanguageOnlyState("TryItOnline", B("c-gcc"))

\* ---- What a sandbox-B link holds, read off the link itself ----

\* The fragment of a link, empty when there is none.
LinkFragment(link) ==
    LET u == UrlParse(link)
    IN  IF u.ok /\ u.fragment.some THEN u.fragment.val ELSE <<>>

\* The host name of a link, None when it has none or does not parse.
LinkHost(link) ==
    LET u == UrlParse(link) IN IF u.ok THEN u.domain ELSE None

\* The path of a link.
LinkPath(link) ==
    LET u == UrlParse(link) IN IF u.ok THEN u.path ELSE <<>>

\* The `&`-separated fields of the fragment, after its language if it has one.
LinkFields(link) ==
    LET lf == SplitOnce(LinkFragment(link), HASH)
    IN  Split(IF lf.some THEN lf.right ELSE LinkFragment(link), AMPERSAND)

\* The places of the fields that have a `=`, and their keys and values.
KeyedPlaces(link) ==
    {i \in 1..Len(LinkFields(link)) : Contains(LinkFields(link)[i], EQUALS)}
KeyAt(link, i) == SplitOnce(LinkFields(link)[i], EQUALS).left
ValueAt(link, i) == SplitOnce(LinkFields(link)[i], EQUALS).right
LinkKeys(link) == {KeyAt(link, i) : i \in KeyedPlaces(link)}

\* The host is one of sandbox B's.
KnownHost(link) ==
    /\ LinkHost(link).some
    /\ \/ LinkHost(link).val \in {TIO_RUN, TRYITONLINE_NET}
       \/ EndsWith(LinkHost(link).val, DOT_TRYITONLINE_NET)

\* The host or the path names a language.
HostNamesLanguage(link) ==
    /\ KnownHost(link)
    /\ LinkHost(link).val # TRYITONLINE_NET
    /\ LinkHost(link).val = TIO_RUN => StartsWith(LinkPath(link), NEXUS_PATH)

\* The value of a field is text the field can hold.
ValueDecodes(key, value) ==
    IF key \in {FIELD_CODE, FIELD_INPUT} THEN decode_field(value).ok
    ELSE IF key = FIELD_ARGS
    THEN \A j \in 1..Len(Split(value, PLUS)) : decode_field(Split(value, PLUS)[j]).ok
    ELSE TRUE

\* The link is in order apart from what its values decode to: a known host,
\* one language at most, and fields with known keys, no key twice and no
\* second `=`.
LinkShapeOk(link) ==
    /\ UrlParse(link).ok
    /\ KnownHost(link)
    /\ ~(HostNamesLanguage(link) /\ Contains(LinkFragment(link), HASH))
    /\ \A i \in KeyedPlaces(link) :
         /\ KeyAt(link, i) \in {FIELD_CODE, FIELD_INPUT, FIELD_ARGS, FIELD_DEBUG}
         /\ ~Contains(ValueAt(link, i), EQUALS)
         /\ \A j \in KeyedPlaces(link) : KeyAt(link, j) = KeyAt(link, i) => j = i

\* Nothing that the link holds is in error: its shape is in order and its
\* values decode.
WellFormedLink(link) ==
    /\ LinkShapeOk(link)
    /\ \A i \in KeyedPlaces(link) : ValueDecodes(KeyAt(link, i), ValueAt(link, i))

\* C16 as stated: a link that has fields but no `code` field is rejected.
C16_CodeRequired ==
    (sandbox = "tio" /\ pc = "decoded" /\ KeyedPlaces(url) # {}
        /\ FIELD_CODE \notin LinkKeys(url))
    => ~dec.ok

\* C16: sandbox B requires no field. A link whose fragment has no `code`
\* field, or no `input` field, and holds no error is accepted, and the
\* missing field is empty in the decoded state.
C16_MissingFieldsDefault ==
    (sandbox = "tio" /\ pc = "decoded")
    => /\ (FIELD_CODE \notin LinkKeys(url) /\ WellFormedLink(url))
             => (dec.ok /\ dec.state.code = <<>>)
       /\ (FIELD_INPUT \notin LinkKeys(url) /\ WellFormedLink(url))
             => (dec.ok /\ dec.state.input = <<>>)
       /\ (FIELD_CODE \notin LinkKeys(url) /\ dec.ok) => dec.state.code = <<>>
       /\ (FIELD_INPUT \notin LinkKeys(url) /\ dec.ok) => dec.state.input = <<>>

\* C16's case: a link with an `input` field and no `code` field was decoded
\* to a state with empty code.
C16_Witness ==
    /\ sandbox = "tio" /\ pc = "decoded"
    /\ url = B("http://a.tryitonline.net/#input=YQ")
    /\ FIELD_CODE \notin LinkKeys(url) /\ FIELD_INPUT \in LinkKeys(url)
    /\ dec.ok /\ dec.state.code = <<>> /\ dec.state.input = B("a")

\* A decoded link is accepted exactly when nothing that it holds is in error.
DecodesIffWellFormed ==
    (sandbox = "tio" /\ pc = "decoded") => (dec.ok <=> WellFormedLink(url))

\* The places of the fields whose value has a `=` of its own.
SecondEqualsPlaces(link) ==
    {i \in KeyedPlaces(link) : Contains(ValueAt(link, i), EQUALS)}

\* The fields before place i are in order: known keys, none twice, and
\* values that decode.
FieldsBeforeInOrder(link, i) ==
    \A j \in KeyedPlaces(link) :
        j < i => /\ KeyAt(link, j) \in {FIELD_CODE, FIELD_INPUT, FIELD_ARGS, FIELD_DEBUG}
                 /\ ValueDecodes(KeyAt(link, j), ValueAt(link, j))
                 /\ \A k \in KeyedPlaces(link) : k < j => KeyAt(link, k) # KeyAt(link, j)

\* C17 as stated: a field with a second `=` always gives FieldContainsEquals.
C17_AlwaysFieldContainsEquals ==
    (sandbox = "tio" /\ pc = "decoded" /\ SecondEqualsPlaces(url) # {})
    => (~dec.ok /\ dec.err = Err("FieldContainsEquals"))

\* C17: a link that has a field with a second `=` is never decoded to a state.
\* The error is FieldContainsEquals, whatever the key of that field (known,
\* unknown or duplicate), unless the host, the language or an earlier field
\* is in error: then that earlier error is the one reported.
C17_FieldContainsEquals ==
    (sandbox = "tio" /\ pc = "decoded" /\ SecondEqualsPlaces(url) # {})
    => /\ ~dec.ok /\ dec.state = NoState
       /\ \A i \in SecondEqualsPlaces(url) :
            (/\ KnownHost(url)
             /\ ~(HostNamesLanguage(url) /\ Contains(LinkFragment(url), HASH))
             /\ FieldsBeforeInOrder(url, i)
             /\ \A j \in SecondEqualsPlaces(url) : i <= j)
            => dec.err = Err("FieldContainsEquals")

\* C17's case: the second `code` field of a link has a `=` in its value, and
\* the link was rejected with FieldContainsEquals, not DuplicateField.
C17_Witness ==
    /\ sandbox = "tio" /\ pc = "decoded"
    /\ url = B("https://tio.run/#a#code=YQ&code=a=b")
    /\ SecondEqualsPlaces(url) = {2}
    /\ ~dec.ok /\ dec.err = Err("FieldContainsEquals")

\* The text that encode_v1 writes for a set debug flag.
DEBUG_ON == B("&debug=on")

\* C18 as stated: the decoded flag is true exactly when the fragment has a
\* `debug` field with a non-empty value.
C18_DebugNonEmptyValue ==
    (sandbox = "tio" /\ pc = "decoded" /\ dec.ok)
    => (dec.state.debug
          <=> \E i \in KeyedPlaces(url) :
                KeyAt(url, i) = FIELD_DEBUG /\ ValueAt(url, i) # <<>>)

\* C18: the decoded debug flag is true exactly when the fragment has a field
\* `debug=`, whatever its value, the empty value included; it is false when
\* there is none, a bare `debug` without `=` included. encode writes the flag
\* as a final `&debug=on` only when it is true.
C18_DebugPresence ==
    /\ (sandbox = "tio" /\ pc = "decoded" /\ dec.ok)
          => (dec.state.debug <=> FIELD_DEBUG \in LinkKeys(url))
    /\ (sandbox = "tio" /\ pc = "link" /\ st # NoState)
          => (EndsWith(url, DEBUG_ON) <=> st.debug)
    /\ (sandbox = "tio" /\ pc = "reencoded")
          => (EndsWith(url2, DEBUG_ON) <=> dec.state.debug)

\* C18's case: a link with the field `debug=`, its value empty, was decoded
\* with the flag set, and encoded again with `&debug=on`.
C18_Witness ==
    /\ sandbox = "tio" /\ pc = "reencoded"
    /\ url = B("https://tio.run/#a#code=YQ&debug=")
    /\ dec.ok /\ dec.state.debug
    /\ url2 = B("https://tio.run/#a#code=YQ&input=&debug=on")

\* A bare `debug` without `=` was decoded with the flag clear.
C18_BareDebugIgnored ==
    /\ sandbox = "tio" /\ pc = "decoded"
    /\ url = B("https://tio.run/#a#code=YQ&debug")
    /\ dec.ok /\ ~dec.state.debug

\* The text of a field with `+` and `/` of the standard alphabet replaced by
\* `-` and `_`: what a decoder that takes the two alphabets intermixed reads.
ToUrlSafe(s) ==
    [i \in 1..Len(s) |-> IF s[i] = Ord("+") THEN Ord("-")
                         ELSE IF s[i] = Ord("/") THEN Ord("_") ELSE s[i]]

\* A field decoded with the two alphabets intermixed.
MixedField(s) ==
    LET b == B64Decode(ToUrlSafe(s), "URL_SAFE_NO_PAD")
    IN  IF b.ok /\ IsUtf8(b.val) THEN TioFieldOk(b.val)
        ELSE TioFieldFail(Err("Invalid"))

\* The values of code and input, and the elements of args, of a link.
TextValues(link) ==
    {ValueAt(link, i) : i \in {j \in KeyedPlaces(link) :
                                  KeyAt(link, j) \in {FIELD_CODE, FIELD_INPUT}}}
    \cup UNION {{Split(ValueAt(link, i), PLUS)[k] :
                    k \in 1..Len(Split(ValueAt(link, i), PLUS))} :
                i \in {j \in KeyedPlaces(link) : KeyAt(link, j) = FIELD_ARGS}}

\* The value of the field with the given key, empty when there is none.
ValueOf(link, key) ==
    IF key \in LinkKeys(link)
    THEN ValueAt(link, CHOOSE i \in KeyedPlaces(link) : KeyAt(link, i) = key)
    ELSE <<>>

\* A value mixes the two alphabets: it has one of `-` `_` and one of `+` `/`.
IsIntermixed(s) ==
    /\ \E i \in 1..Len(s) : s[i] \in {Ord("-"), Ord("_")}
    /\ \E i \in 1..Len(s) : s[i] \in {Ord("+"), Ord("/")}

\* C19: in a link otherwise in order, code, input and each element of args
\* decode when their text is unpadded base64 of UTF-8 text in the URL-safe
\* alphabet, the standard alphabet, or the two intermixed; and when a field
\* decodes in neither alphabet the error reported is that of the URL-safe
\* attempt.
C19_FieldLeniency ==
    (sandbox = "tio" /\ pc = "decoded" /\ LinkShapeOk(url))
    => /\ (\A v \in TextValues(url) : MixedField(v).ok)
             => /\ dec.ok
                /\ dec.state.code = MixedField(ValueOf(url, FIELD_CODE)).val
                /\ dec.state.input = MixedField(ValueOf(url, FIELD_INPUT)).val
       /\ (~dec.ok /\ dec.err.kind = "Base64")
             => \E v \in TextValues(url) :
                    /\ ~B64Decode(v, "URL_SAFE_NO_PAD").ok
                    /\ ~B64Decode(v, "STANDARD_NO_PAD").ok
                    /\ dec.err = Wrap("Base64", B64Decode(v, "URL_SAFE_NO_PAD").err)

\* A link whose code mixes the two alphabets, and is base64 of UTF-8 text when
\* they are read as one, was rejected.
C19_IntermixedRejected ==
    /\ sandbox = "tio" /\ pc = "decoded"
    /\ url = B("https://tio.run/#a#code=Yc+_&input=")
    /\ IsIntermixed(ValueOf(url, FIELD_CODE))
    /\ MixedField(ValueOf(url, FIELD_CODE)).ok
    /\ ~dec.ok /\ dec.err.kind = "Base64"

\* What of C19 the code does: a field in one alphabet, URL-safe or standard,
\* decodes, and a field that decodes in neither gives the URL-safe error.
C19_OneAlphabetPerField ==
    (sandbox = "tio" /\ pc = "decoded" /\ LinkShapeOk(url))
    => /\ (\A v \in TextValues(url) : MixedField(v).ok /\ ~IsIntermixed(v))
             => /\ dec.ok
                /\ dec.state.code = MixedField(ValueOf(url, FIELD_CODE)).val
                /\ dec.state.input = MixedField(ValueOf(url, FIELD_INPUT)).val
       /\ (~dec.ok /\ dec.err.kind = "Base64")
             => \E v \in TextValues(url) :
                    /\ ~B64Decode(v, "URL_SAFE_NO_PAD").ok
                    /\ ~B64Decode(v, "STANDARD_NO_PAD").ok
                    /\ dec.err = Wrap("Base64", B64Decode(v, "URL_SAFE_NO_PAD").err)

\* A link whose code is in the standard alphabet was decoded.
C19_StandardAccepted ==
    /\ sandbox = "tio" /\ pc = "decoded"
    /\ url = B("https://tio.run/#a#code=&input=Yc+/")
    /\ dec.ok /\ dec.state.input = MixedField(B("Yc-_")).val

\* The language that the fragment of a link names, empty when it names none.
FragmentLanguage(link) ==
    LET lf == SplitOnce(LinkFragment(link), HASH)
    IN  IF lf.some THEN lf.left ELSE <<>>

\* C20: the domain of a decoded link follows from its host and path. Host
\* tio.run with a path that starts with /nexus/ gives TioNexus and the rest
\* of the path as language; tio.run with another path gives Tio; host
\* tryitonline.net gives TryItOnline and no language from the host; host
\* <lang>.tryitonline.net gives TryItOnline and the language <lang>. Every
\* other host, and a link whose host is not a domain name, is rejected with
\* UnknownDomain whatever its fragment holds.
C20_DomainResolution ==
    (sandbox = "tio" /\ pc = "decoded" /\ UrlParse(url).ok)
    => LET host == LinkHost(url)
           path == LinkPath(url)
       IN  /\ ~host.some => (~dec.ok /\ dec.err = ErrText("UnknownDomain", <<>>))
           /\ (host.some /\ ~KnownHost(url))
                 => (~dec.ok /\ dec.err = ErrText("UnknownDomain", host.val))
           /\ KnownHost(url) => (~dec.ok => dec.err.kind # "UnknownDomain")
           /\ (KnownHost(url) /\ dec.ok)
                 => IF host.val = TIO_RUN /\ StartsWith(path, NEXUS_PATH)
                    THEN /\ dec.state.domain = "TioNexus"
                         /\ dec.state.language = Drop(path, Len(NEXUS_PATH))
                    ELSE IF host.val = TIO_RUN
                    THEN /\ dec.state.domain = "Tio"
                         /\ dec.state.language = FragmentLanguage(url)
                    ELSE IF host.val = TRYITONLINE_NET
                    THEN /\ dec.state.domain = "TryItOnline"
                         /\ dec.state.language = FragmentLanguage(url)
                    ELSE /\ dec.state.domain = "TryItOnline"
                         /\ dec.state.language
                              = Take(host.val, Len(host.val) - Len(DOT_TRYITONLINE_NET))

\* C20's case: a link of tio.run with the path /nexus/c-gcc was decoded to a
\* TioNexus state with the language c-gcc.
C20_Witness ==
    /\ sandbox = "tio" /\ pc = "decoded"
    /\ LinkHost(url) = Some(TIO_RUN) /\ LinkPath(url) = B("/nexus/c-gcc")
    /\ dec.ok /\ dec.state.domain = "TioNexus" /\ dec.state.language = B("c-gcc")

\* A link of another host whose fragment holds two languages and a field
\* with a second `=` was rejected with UnknownDomain.
C20_UnknownBeforeFields ==
    /\ sandbox = "tio" /\ pc = "decoded"
    /\ url = B("https://example.com/#a#b#x=1=2")
    /\ ~dec.ok /\ dec.err = ErrText("UnknownDomain", B("example.com"))

\* A link whose host is an address was rejected with an empty UnknownDomain.
C20_AddressHost ==
    /\ sandbox = "tio" /\ pc = "decoded"
    /\ url = B("http://127.0.0.1/#a#code=YQ")
    /\ ~dec.ok /\ dec.err = ErrText("UnknownDomain", <<>>)

\* Links of tryitonline.net and of a host that only ends like it.
C20_LegacyHostWithoutLanguage ==
    /\ sandbox = "tio" /\ pc = "decoded"
    /\ LinkHost(url) = Some(TRYITONLINE_NET)
    /\ dec.ok /\ dec.state.domain = "TryItOnline" /\ dec.state.language = <<>>

(***************************************************************************)
(* The language registry under concurrent callers (ato/api.rs)             *)
(*                                                                         *)
(* LANGUAGES is a lazy_static: a cell guarded by a std::sync::Once. The    *)
(* first thread to reach call_once runs the initialiser (the fetch and the *)
(* two unwraps); threads that arrive while it runs block until it ends. A  *)
(* panic in the initialiser poisons the Once, and call_once on a poisoned  *)
(* Once panics without running the initialiser.                            *)
(***************************************************************************)

MaxThreads == 3
MaxCalls == 2

Threads == 1..MaxThreads

\* The names that the threads look up, and the maps that the server may send.
LookupNames == {B("a"), B("zz")}
RegistryMaps == {{}, {B("a")}}

\* What the fetch and the parse of its body give: a map, or a panic of one of
\* the two unwraps.
FetchOutcomes ==
    {[ok |-> TRUE, ids |-> m] : m \in RegistryMaps} \cup {[ok |-> FALSE, ids |-> {}]}

\* A Once that runs the initialiser again after it has panicked.
Once_call_once_RetryPoisoned(state) ==
    IF state = "incomplete" THEN "run"
    ELSE IF state = "running" THEN "wait"
    ELSE IF state = "complete" THEN "done"
    ELSE "run"

\* What call_once makes of the caller: it runs the initialiser, waits for the
\* thread that runs it, goes on with the initialised cell, or panics.
Once_call_once(state) ==
    IF state = "incomplete" THEN "run"
    ELSE IF state = "running" THEN "wait"
    ELSE IF state = "complete" THEN "done"
    ELSE "panic"

IdleThread == [pc |-> "idle", name |-> <<>>, found |-> None, calls |-> 0]

InitRegistry ==
    /\ sandbox = "registry"
    /\ pc = "threads"
    /\ st = NoState
    /\ url = <<>>
    /\ dec = NoResult
    /\ url2 = <<>>
    /\ dec2 = NoResult
    /\ args = <<>>
    /\ parsed = NoParsed
    /\ registry = NoRegistry
    /\ typed = NoTyped
    /\ once = NoOnce
    /\ threads = [t \in Threads |-> IdleThread]

\* A thread calls get_language(name).
RegistryCall(t) ==
    /\ sandbox = "registry"
    /\ threads[t].pc \in {"idle", "returned"}
    /\ threads[t].calls < MaxCalls
    /\ \E name \in LookupNames :
         threads' = [threads EXCEPT ![t] = [pc |-> "entered", name |-> name,
                                            found |-> None, calls |-> @.calls + 1]]
    /\ UNCHANGED <<once, registry, typed, args, parsed, sandbox, pc, st, url, dec,
                   url2, dec2>>

\* The thread reaches call_once in the deref of LANGUAGES. With the cell
\* initialised it reads the map and returns the entry.
RegistryEnter(t) ==
    /\ sandbox = "registry"
    /\ threads[t].pc = "entered"
    /\ \E d \in {Once_call_once(once.state)} :
         /\ d # "wait"
         /\ IF d = "run"
            THEN /\ once' = [once EXCEPT !.state = "running", !.fetches = @ + 1]
                 /\ threads' = [threads EXCEPT ![t].pc = "initialising"]
            ELSE IF d = "done"
            THEN /\ once' = [once EXCEPT !.observed = @ \cup {once.value}]
                 /\ threads' = [threads EXCEPT
                        ![t].pc = "returned",
                        ![t].found = IF threads[t].name \in once.value
                                     THEN Some(threads[t].name) ELSE None]
            ELSE /\ once' = once
                 /\ threads' = [threads EXCEPT ![t].pc = "panicked"]
    /\ UNCHANGED <<registry, typed, args, parsed, sandbox, pc, st, url, dec, url2, dec2>>

\* The initialiser ends: with a map, which is stored and read by the thread
\* that ran it, or with a panic, which poisons the Once.
RegistryFetched(t) ==
    /\ sandbox = "registry"
    /\ threads[t].pc = "initialising"
    /\ \E r \in FetchOutcomes :
         IF r.ok
         THEN /\ once' = [once EXCEPT !.state = "complete", !.value = r.ids,
                                      !.observed = @ \cup {r.ids}]
              /\ threads' = [threads EXCEPT
                     ![t].pc = "returned",
                     ![t].found = IF threads[t].name \in r.ids
                                  THEN Some(threads[t].name) ELSE None]
         ELSE /\ once' = [once EXCEPT !.state = "poisoned"]
              /\ threads' = [threads EXCEPT ![t].pc = "panicked"]
    /\ UNCHANGED <<registry, typed, args, parsed, sandbox, pc, st, url, dec, url2, dec2>>

NextRegistry ==
    \E t \in Threads : RegistryCall(t) \/ RegistryEnter(t) \/ RegistryFetched(t)

SpecRegistry == InitRegistry /\ [][NextRegistry]_vars

\* What holds of the registry at every moment.
RegistryInvariant ==
    sandbox = "registry"
    => /\ once.fetches <= 1
       /\ once.fetches = 0 <=> once.state = "incomplete"
       /\ once.state = "incomplete"
             => \A t \in Threads : threads[t].pc \in {"idle", "entered"}
       /\ Cardinality(once.observed) <= 1
       /\ \A t \in Threads :
            threads[t].pc = "returned"
               => /\ once.state = "complete"
                  /\ once.observed = {once.value}
                  /\ threads[t].found = IF threads[t].name \in once.value
                                        THEN Some(threads[t].name) ELSE None
       /\ once.state = "poisoned"
             => /\ once.observed = {}
                /\ \A t \in Threads : threads[t].pc # "returned"
                /\ \E t \in Threads : threads[t].pc = "panicked"

\* What holds of every step: an initialised map is never replaced, a poisoned
\* Once stays poisoned, and neither starts a fetch.
RegistryStep ==
    /\ once.state = "complete" => (once'.state = "complete" /\ once'.value = once.value)
    /\ once.state = "poisoned" => once'.state = "poisoned"
    /\ once.state \in {"complete", "poisoned"} => once'.fetches = once.fetches
    /\ \A t \in Threads :
         (once.state = "poisoned" /\ threads[t].pc = "entered"
             /\ threads'[t].pc # "entered")
         => threads'[t].pc = "panicked"

\* C21: under any interleaving of the calling threads the fetch is started at
\* most once, by the first call; every call that returns has read the same
\* map, which is never replaced; and when the initialiser fails, the caller
\* that ran it panics and every later call panics too, with no second fetch.
C21_RegistryLifecycle == [](RegistryInvariant) /\ [][RegistryStep]_vars

\* C21's case: every thread has a call that returned, one of them its second
\* call, after one fetch.
C21_Witness ==
    /\ sandbox = "registry"
    /\ once.state = "complete" /\ once.fetches = 1 /\ once.value = {B("a")}
    /\ \A t \in Threads : threads[t].pc = "returned"
    /\ \E t \in Threads : threads[t].calls = 2
    /\ \E t \in Threads : threads[t].found = None

\* The initialiser failed: the thread that ran it and the threads that called
\* later have all panicked, after one fetch.
C21_FailureReachesAll ==
    /\ sandbox = "registry"
    /\ once.state = "poisoned" /\ once.fetches = 1
    /\ \A t \in Threads : threads[t].pc = "panicked"

(***************************************************************************)
(* Callers of either sandbox                                               *)
(***************************************************************************)

InitLinks == InitAto \/ InitTio

NextLinks == NextAto \/ NextTio

SpecLinks == InitLinks /\ [][NextLinks]_vars

\* The names that a sandbox-B field can have.
KnownFields == {FIELD_CODE, FIELD_INPUT, FIELD_ARGS, FIELD_DEBUG}

\* The name of a fragment field: its key, or all of it when it has no `=`.
FieldName(link, i) ==
    IF i \in KeyedPlaces(link) THEN KeyAt(link, i) ELSE LinkFields(link)[i]

\* The places of the `key=value` fields whose key is not a known name.
UnknownFieldAt(link) == {i \in KeyedPlaces(link) : KeyAt(link, i) \notin KnownFields}

\* C22 as stated: a sandbox-A link with a key other than 0, 1, L, l fails with
\* UnknownKey and that key; every non-empty fragment field of an accepted
\* sandbox-B link has one of the four names and is read.
C22_NothingDropped ==
    /\ (sandbox = "ato" /\ pc \in {"decoded", "reencoded", "done"}
           /\ UnknownKeyAt(url) # {})
          => /\ ~dec.ok /\ dec.err.kind = "UnknownKey"
             /\ \E i \in UnknownKeyAt(url) : dec.err.text = LinkPairs(url)[i].key
    /\ (sandbox = "tio" /\ pc = "decoded" /\ dec.ok)
          => \A i \in 1..Len(LinkFields(url)) :
                LinkFields(url)[i] # <<>>
                   => (FieldName(url, i) \in KnownFields /\ i \in KeyedPlaces(url))

\* C22: a key that is not known is never passed over. A sandbox-A link with a
\* query key other than 0, 1, L, l is rejected, with UnknownKey and the key
\* unless a second schema key or a second language key comes before it. A
\* sandbox-B link with a `key=value` field whose key is not code, input, args
\* or debug is rejected, with UnknownField and the key unless the host, the
\* language or an earlier field is in error or the value has a second `=`. A
\* fragment field without `=` has no key: it is passed over, and the state of
\* an accepted link is that of its `key=value` fields.
C22_UnknownKeysRejected ==
    /\ (sandbox = "ato" /\ pc \in {"decoded", "reencoded", "done"}
           /\ UnknownKeyAt(url) # {})
          => /\ ~dec.ok /\ dec.state = NoState
             /\ FirstStop(url) \in UnknownKeyAt(url)
                   => dec.err = ErrText("UnknownKey", LinkPairs(url)[FirstStop(url)].key)
    /\ (sandbox = "tio" /\ pc = "decoded" /\ UnknownFieldAt(url) # {})
          => /\ ~dec.ok /\ dec.state = NoState
             /\ \A i \in UnknownFieldAt(url) :
                  (/\ KnownHost(url)
                   /\ ~(HostNamesLanguage(url) /\ Contains(LinkFragment(url), HASH))
                   /\ FieldsBeforeInOrder(url, i)
                   /\ \A j \in KeyedPlaces(url) :
                        j < i => ~Contains(ValueAt(url, j), EQUALS)
                   /\ ~Contains(ValueAt(url, i), EQUALS))
                  => dec.err = ErrText("UnknownField", KeyAt(url, i))
    /\ (sandbox = "tio" /\ pc = "decoded" /\ dec.ok)
          => /\ LinkKeys(url) \subseteq KnownFields
             /\ dec.state.code = decode_field(ValueOf(url, FIELD_CODE)).val
             /\ dec.state.input = decode_field(ValueOf(url, FIELD_INPUT)).val
             /\ dec.state.debug <=> FIELD_DEBUG \in LinkKeys(url)

\* C22's case: a sandbox-B link whose second field has the key x was rejected
\* with UnknownField(x), its bare first field passed over.
C22_Witness ==
    /\ sandbox = "tio" /\ pc = "decoded"
    /\ url = B("https://tio.run/#a#junk&code=YQ&x=1")
    /\ UnknownFieldAt(url) = {3}
    /\ ~dec.ok /\ dec.err = ErrText("UnknownField", B("x"))

\* A sandbox-A link with an unknown key and no earlier fault was rejected with
\* UnknownKey and the key.
C22_UnknownKeyA ==
    /\ sandbox = "ato" /\ pc = "decoded"
    /\ UnknownKeyAt(url) # {} /\ FirstStop(url) \in UnknownKeyAt(url)
    /\ ~dec.ok /\ dec.err = ErrText("UnknownKey", LinkPairs(url)[FirstStop(url)].key)

\* A sandbox-A link with an unknown key after a second schema key was
\* rejected with MultipleVersions.
C22_UnknownKeyLater ==
    /\ sandbox = "ato" /\ pc = "decoded"
    /\ UnknownKeyAt(url) # {} /\ FirstStop(url) \notin UnknownKeyAt(url)
    /\ ~dec.ok /\ dec.err.kind # "UnknownKey"

\* A sandbox-B link with the bare field junk was accepted.
C22_BareFieldAccepted ==
    /\ sandbox = "tio" /\ pc = "decoded"
    /\ url = B("https://tio.run/#a#code=YQ&junk")
    /\ dec.ok /\ dec.state.code = B("a")

\* The fields of the positional record in the order of schema V0 and of
\* schema V1.
LayoutV0 ==
    <<"language", "header", "header_encoding", "code", "code_encoding", "footer",
      "footer_encoding", "input", "input_encoding">>
LayoutV1 ==
    <<"language", "options", "header", "header_encoding", "code", "code_encoding",
      "footer", "footer_encoding", "program_arguments", "input", "input_encoding">>
LayoutOf(schema) == IF schema = "V0" THEN LayoutV0 ELSE LayoutV1

\* The state whose fields are the texts of a record in the order of a layout,
\* the fields that the layout lacks empty.
StateOfLayout(schema, texts) ==
    [f \in StringFields \cup {"schema"} |->
        IF f = "schema" THEN schema
        ELSE IF \E i \in 1..Len(LayoutOf(schema)) : LayoutOf(schema)[i] = f
        THEN texts[CHOOSE i \in 1..Len(LayoutOf(schema)) : LayoutOf(schema)[i] = f]
        ELSE <<>>]

\* The elements of the array are all strings.
AllStr(shape) == \A i \in 1..Len(shape) : shape[i].type = "str"

\* The elements of the array are all strings, or bins that hold UTF-8 text.
AllText(shape) ==
    \A i \in 1..Len(shape) :
        shape[i].type = "str" \/ (shape[i].type = "bin" /\ IsUtf8(shape[i].text))

TextsOf(shape) == [i \in 1..Len(shape) |-> shape[i].text]

\* The link of each hand-made payload under each schema key.
ShapeLink ==
    [schema \in {"V0", "V1"}, shape \in RecordShapes |->
        encode_url(schema, ShapeBytes(shape), "best")]
NotArrayLink ==
    [schema \in {"V0", "V1"}, mp \in NotArrays |-> encode_url(schema, mp, "best")]

\* The payload of the link was not unpacked: a MessagePack error and no state.
UnpackRejected ==
    ~dec.ok /\ dec.state = NoState /\ dec.err.kind = "MessagePack"

\* serialize_mp writes the fields of the caller's state in the order of the
\* layout.
SerializedInLayout ==
    (sandbox = "ato" /\ pc = "link" /\ st # NoState)
    => url = encode_url(st.schema,
                        ShapeBytes([i \in 1..Len(LayoutOf(st.schema)) |->
                                      [type |-> "str", text |-> st[LayoutOf(st.schema)[i]]]]),
                        "best")

\* C23 as stated: the payload under `0` is accepted only as an array of 9
\* strings and under `1` only as an array of 11 strings, read in the order of
\* the layout; another arity or an element that is no string is a MessagePack
\* error; serialize_mp writes the same positions.
C23_RecordLayout ==
    /\ (sandbox = "ato" /\ pc = "decoded")
          => /\ \A schema \in {"V0", "V1"}, shape \in RecordShapes :
                  url = ShapeLink[schema, shape]
                     => IF Len(shape) = Len(LayoutOf(schema)) /\ AllStr(shape)
                        THEN dec.ok /\ dec.state = StateOfLayout(schema, TextsOf(shape))
                        ELSE UnpackRejected
             /\ \A schema \in {"V0", "V1"}, mp \in NotArrays :
                  url = NotArrayLink[schema, mp] => UnpackRejected
    /\ SerializedInLayout

\* C23: the payload under `0` is accepted only as an array of exactly 9
\* elements and under `1` only as an array of exactly 11, read in the order
\* of the layout, each element a string or a binary that holds UTF-8 text,
\* which is read as a string. Another arity, a payload that is no array, or
\* an element of another type (an integer, nil, an array, a binary that is
\* not UTF-8) is a MessagePack error with no state; serialize_mp writes the
\* same positions, every element a string.
C23_RecordLayoutOfTexts ==
    /\ (sandbox = "ato" /\ pc = "decoded")
          => /\ \A schema \in {"V0", "V1"}, shape \in RecordShapes :
                  url = ShapeLink[schema, shape]
                     => IF Len(shape) = Len(LayoutOf(schema)) /\ AllText(shape)
                        THEN dec.ok /\ dec.state = StateOfLayout(schema, TextsOf(shape))
                        ELSE UnpackRejected
             /\ \A schema \in {"V0", "V1"}, mp \in NotArrays :
                  url = NotArrayLink[schema, mp] => UnpackRejected
    /\ SerializedInLayout

\* C23's case: a V1 record of 11 strings under the key `0` was rejected with
\* a MessagePack error.
C23_Witness ==
    /\ sandbox = "ato" /\ pc = "decoded"
    /\ \E shape \in RecordShapes :
          /\ Len(shape) = 11 /\ AllStr(shape)
          /\ url = ShapeLink["V0", shape]
    /\ UnpackRejected

\* An array of 9 strings under `0` was read in the order of the layout.
C23_NineAccepted ==
    /\ sandbox = "ato" /\ pc = "decoded"
    /\ \E shape \in RecordShapes :
          /\ Len(shape) = 9 /\ AllStr(shape)
          /\ url = ShapeLink["V0", shape]
    /\ dec.ok /\ dec.state.language = B("a") /\ dec.state.input = B("h")
    /\ dec.state.options = <<>> /\ dec.state.program_arguments = <<>>

\* An array of 9 elements with a binary in the third place was accepted, the
\* binary read as the header encoding.
C23_BinaryAccepted ==
    /\ sandbox = "ato" /\ pc = "decoded"
    /\ \E shape \in RecordShapes :
          /\ Len(shape) = 9 /\ shape[3] = [type |-> "bin", text |-> B("x")]
          /\ url = ShapeLink["V0", shape]
    /\ dec.ok /\ dec.state.header_encoding = B("x")

\* The stages of sandbox A's decode in their order.
StageOrder == <<"url_parse", "query_scan", "base64", "inflate", "unpack", "backfill">>

\* The stage that a step of the decode belongs to: the removal of foreign
\* characters and the second decode are part of the base64 stage.
StageOf(step) == IF step \in {"tidy", "base64_retry"} THEN "base64" ELSE step

Stages == {StageOrder[i] : i \in 1..Len(StageOrder)}

StagePlace(stage) == CHOOSE i \in 1..Len(StageOrder) : StageOrder[i] = stage

\* The stages that ran, in the order in which they ran.
StagesRun(steps) ==
    LET all == [i \in 1..Len(steps) |-> StageOf(steps[i])]
    IN  SelectSeq([i \in 1..Len(all) |-> IF i > 1 /\ all[i] = all[i - 1] THEN "" ELSE all[i]],
                  LAMBDA s : s # "")

\* The errors that a stage can end with.
ErrorsOf(stage) ==
    CASE stage = "url_parse" -> {"Url"}
      [] stage = "query_scan" -> {"UnknownKey", "MultipleVersions", "MultipleLanguages"}
      [] stage = "base64" -> {"Base64"}
      [] stage = "inflate" -> {"Deflate"}
      [] stage = "unpack" -> {"MessagePack"}
      [] OTHER -> {}

\* C24: the stages of sandbox A's decode run in the order URL parse, key scan,
\* base64 decode, decompress, unpack, backfill. A decode that fails has run
\* the stages up to the failing one and none after it, its error is that of
\* the failing stage, and it returns no state. A decode that succeeds has run
\* every stage, or for a link without schema key the URL parse, the key scan
\* and the backfill.
C24_LinearPipeline ==
    (sandbox = "ato" /\ pc \in {"decoded", "reencoded", "done"})
    => LET ran == StagesRun(dec.stages)
       IN  /\ ran # <<>>
           /\ \A i \in 1..Len(dec.stages) : StageOf(dec.stages[i]) \in Stages
           /\ \A i, j \in 1..Len(ran) : i < j => StagePlace(ran[i]) < StagePlace(ran[j])
           /\ ~dec.ok
                 => /\ ran = SubSeq(StageOrder, 1, Len(ran))
                    /\ dec.err.kind \in ErrorsOf(ran[Len(ran)])
                    /\ dec.state = NoState
           /\ dec.ok
                 => /\ dec.err = NoErr /\ dec.state # NoState
                    /\ ran = IF SchemaKeyAt(url) = {} THEN <<"url_parse", "query_scan", "backfill">>
                             ELSE StageOrder
           /\ ~UrlParse(url).ok <=> (~dec.ok /\ ran = <<"url_parse">>)
           /\ (UrlParse(url).ok /\ ({SecondOf(SchemaKeyAt(url)), SecondOf(LanguageKeyAt(url))} \ {0})
                                      \cup UnknownKeyAt(url) # {})
                 <=> (~dec.ok /\ ran = <<"url_parse", "query_scan">>)

\* C24's case: the value of a link was decoded from base64 and did not
\* decompress; the decode ended there with the decompression error and no
\* state.
C24_Witness ==
    /\ sandbox = "ato" /\ pc = "decoded"
    /\ StagesRun(dec.stages) = <<"url_parse", "query_scan", "base64", "inflate">>
    /\ ~dec.ok /\ dec.err.kind = "Deflate" /\ dec.state = NoState

\* A decode that ended in the unpack stage, and one that ended in the base64
\* stage after the second decode.
C24_EndsInUnpack ==
    /\ sandbox = "ato" /\ pc = "decoded"
    /\ StagesRun(dec.stages) = SubSeq(StageOrder, 1, 5)
    /\ ~dec.ok /\ dec.err.kind = "MessagePack"
C24_EndsInBase64 ==
    /\ sandbox = "ato" /\ pc = "decoded"
    /\ dec.stages = <<"url_parse", "query_scan", "base64", "tidy", "base64_retry">>
    /\ ~dec.ok /\ dec.err.kind = "Base64"

\* A state without its options and program arguments.
WithoutV1Fields(s) == [s EXCEPT !.options = <<>>, !.program_arguments = <<>>]

\* The link has one schema key, and it is `0`.
IsV0Link(link) ==
    /\ Cardinality(SchemaKeyAt(link)) = 1
    /\ \A i \in SchemaKeyAt(link) : LinkPairs(link)[i].key = KEY_0

\* C25: the link of a V0 state is made of its nine V0 fields only, so that
\* options and program_arguments do not show in it; every state decoded from
\* a `0=` link has empty options and program_arguments; and the link of a V0
\* state decodes to the state with those two fields empty.
C25_V0DropsV1Fields ==
    /\ (sandbox = "ato" /\ pc \in {"link", "decoded"} /\ st # NoState /\ st.schema = "V0")
          => /\ url = encode_url("V0",
                                 ShapeBytes([i \in 1..Len(LayoutV0) |->
                                               [type |-> "str", text |-> st[LayoutV0[i]]]]),
                                 "best")
             /\ IsV0Link(url)
    /\ (sandbox = "ato" /\ pc = "decoded" /\ dec.ok /\ IsV0Link(url))
          => /\ dec.state.schema = "V0"
             /\ dec.state.options = <<>> /\ dec.state.program_arguments = <<>>
    /\ (sandbox = "ato" /\ pc = "decoded" /\ st # NoState /\ st.schema = "V0")
          => (dec.ok /\ dec.state = WithoutV1Fields(st))

\* C25's case: a V0 state with options and program arguments was encoded and
\* its link decoded to the state without them.
C25_Witness ==
    /\ sandbox = "ato" /\ pc = "decoded"
    /\ st # NoState /\ st.schema = "V0"
    /\ st.options # <<>> /\ st.program_arguments # <<>>
    /\ dec.ok /\ dec.state # st /\ dec.state = WithoutV1Fields(st)

\* C26: every state that decode_v1 returns has schema V1, whatever its domain,
\* and encode_v1 does not abort on it; encode_v1 aborts on every state with
\* schema V2, the default state included, and returns no link for it.
C26_EncodePrecondition ==
    sandbox = "tio"
    => /\ (pc \in {"decoded", "reencoded", "done", "aborted"} /\ dec.ok)
             => dec.state.schema = "V1"
       /\ pc = "aborted" => (st # NoState /\ st.schema = "V2" /\ url = <<>> /\ ~dec.ok)
       /\ (st # NoState /\ st.schema = "V2") => (pc \in {"state", "aborted"} /\ url = <<>>)
       /\ (st # NoState /\ st.schema = "V1" /\ pc # "state") => pc # "aborted"

\* C26's case: encode_v1 was called on the state of LinkState::new() and
\* aborted.
C26_Witness ==
    /\ sandbox = "tio" /\ pc = "aborted"
    /\ st = TioLinkStateDefault /\ st.schema = "V2"
    /\ url = <<>>

\* A state decoded from a link of each domain was encoded again.
C26_DecodedEncodes ==
    /\ sandbox = "tio" /\ pc = "reencoded"
    /\ dec.ok /\ dec.state.schema = "V1" /\ dec.state.domain = "TryItOnline"
    /\ url2 # <<>>

(***************************************************************************)
(* Callers of sandbox B that reorder the fields of a link                  *)
(***************************************************************************)

\* The most fields of a link that the caller reorders.
MaxPermuted == 4

\* The link with its `&`-separated fields in another order: the text before
\* the fields, then the fields as the permutation places them.
PermuteFields(link, perm) ==
    Take(link, Len(link) - Len(JoinWith(LinkFields(link), AMPERSAND)))
        \o JoinWith([i \in 1..Len(LinkFields(link)) |-> LinkFields(link)[perm[i]]], AMPERSAND)

\* The caller reorders the fields of a link that was accepted.
TioPermute ==
    /\ sandbox = "tio" /\ pc = "decoded" /\ dec.ok
    /\ Len(LinkFields(url)) <= MaxPermuted
    /\ \E perm \in Permutations(1..Len(LinkFields(url))) :
         url2' = PermuteFields(url, perm)
    /\ pc' = "permuted"
    /\ UNCHANGED <<once, threads, registry, typed, args, parsed, sandbox, st, url, dec, dec2>>

\* LinkState::decode_v1 of the reordered link.
TioDecodePermuted ==
    /\ sandbox = "tio" /\ pc = "permuted"
    /\ dec2' = decode_v1(url2)
    /\ pc' = "permuted_decoded"
    /\ UNCHANGED <<once, threads, registry, typed, args, parsed, sandbox, st, url, dec, url2>>

NextPermute == NextTio \/ TioPermute \/ TioDecodePermuted

SpecPermute == InitTio /\ [][NextPermute]_vars

\* The fields that encode_v1 writes for a state, in its order.
FieldText(s) ==
    B("code=") \o UrlSafeEncode(s.code) \o B("&input=") \o UrlSafeEncode(s.input)
        \o (IF s.args = <<>> THEN <<>>
            ELSE B("&args=")
                   \o JoinWith([i \in 1..Len(s.args) |-> UrlSafeEncode(s.args[i])], PLUS))
        \o (IF s.debug THEN DEBUG_ON ELSE <<>>)

\* C27: a link that decode_v1 accepts is accepted with its fields in any
\* other order, and decodes to the same state. encode_v1 writes the fields in
\* the order code, input, args, debug, with `code=` and `input=` also when
\* they are empty.
C27_FieldOrder ==
    sandbox = "tio"
    => /\ pc = "permuted_decoded" => (dec2.ok /\ dec2.state = dec.state /\ dec2 = dec)
       /\ (pc = "link" /\ st # NoState)
             => EndsWith(url, <<HASH>> \o FieldText(st))
       /\ pc = "reencoded" => EndsWith(url2, <<HASH>> \o FieldText(dec.state))

\* C27's case: a link with the four fields was given with debug first and
\* code last, and decoded to the same state.
C27_Witness ==
    /\ sandbox = "tio" /\ pc = "permuted_decoded"
    /\ Len(LinkFields(url)) = 4
    /\ KeyAt(url, 1) = FIELD_CODE /\ KeyAt(url2, 1) = FIELD_DEBUG
    /\ KeyAt(url2, 4) = FIELD_CODE
    /\ dec.state.args # <<>> /\ dec.state.code # <<>>
    /\ dec2.ok /\ dec2.state = dec.state

\* A state with empty code and input was encoded with `code=` and `input=`.
C27_EmptyFieldsWritten ==
    /\ sandbox = "tio" /\ pc = "link" /\ st # NoState
    /\ st.code = <<>> /\ st.input = <<>> /\ st.args = <<>> /\ ~st.debug
    /\ EndsWith(url, B("#code=&input="))

=============================================================================
